---- MODULE Spec2Model ----
(***************************************************************************)
(* BrewNix quality-gate pipeline: QualityGateManager (run_quality_gates.py) *)
(* and the analyzers it composes: SecurityScanner (scan_security.py),       *)
(* ComplexityAnalyzer (analyze_complexity.py) and CodeReviewAutomator       *)
(* (automate_review.py).                                                    *)
(*                                                                         *)
(* A source line is modelled by the substrings/patterns it contains: a     *)
(* function from pattern text to its number of occurrences in the line.    *)
(* The project tree is a sequence of files in glob order.                  *)
(***************************************************************************)
EXTENDS Integers, Sequences, FiniteSets, TLC

VARIABLES
    fs,         \* the project tree: sequence of file records, in glob order
    host,       \* the host: what each external tool and analyzer script does
    clock,      \* wall clock, whole seconds (int(time.time()))
    pc,         \* position of the entry point that is running
    gates,      \* results["gates"]: gate name -> status
    detail,     \* gate-specific fields of the four gate results
    overall,    \* results["overall_status"]
    summary,    \* results["summary"]
    timestamp,  \* results["timestamp"] of the run in progress
    reports,    \* quality-gates/reports: report file name (timestamp) -> content
    runs,       \* number of entry-point runs completed
    exitCode,   \* process exit code set by sys.exit in main (-1: none yet)
    out,        \* result dict returned by the analyzer run last
    prev,       \* result dict returned by the analyzer run before that
    baselines   \* tests/performance/baselines.json: baseline key -> duration

vars == <<fs, host, clock, pc, gates, detail, overall, summary, timestamp, reports,
          runs, exitCode, out, prev, baselines>>

----------------------------------------------------------------------------
(* Generic helpers *)

None == <<>>
Some(x) == <<x>>
IsSome(o) == Len(o) > 0

Min2(a, b) == IF a < b THEN a ELSE b
Max2(a, b) == IF a > b THEN a ELSE b

(* concatenation, sum and maximum of the elements lo..hi of a sequence, by halves *)
RECURSIVE FlattenRange(_, _, _)
FlattenRange(t, lo, hi) ==
    IF lo > hi THEN <<>>
    ELSE IF lo = hi THEN t[lo]
    ELSE LET m == (lo + hi) \div 2
         IN  FlattenRange(t, lo, m) \o FlattenRange(t, m + 1, hi)

RECURSIVE SumRange(_, _, _)
SumRange(t, lo, hi) ==
    IF lo > hi THEN 0
    ELSE IF lo = hi THEN t[lo]
    ELSE LET m == (lo + hi) \div 2
         IN  SumRange(t, lo, m) + SumRange(t, m + 1, hi)

RECURSIVE MaxRange(_, _, _, _)
MaxRange(t, lo, hi, default) ==
    IF lo > hi THEN default
    ELSE IF lo = hi THEN t[lo]
    ELSE LET m == (lo + hi) \div 2
         IN  Max2(MaxRange(t, lo, m, default), MaxRange(t, m + 1, hi, default))

Flatten(ss) == LET t == ss \o <<>> IN FlattenRange(t, 1, Len(t))
SumSeq(s) == LET t == s \o <<>> IN SumRange(t, 1, Len(t))
MaxSeq(s, default) == LET t == s \o <<>> IN MaxRange(t, 1, Len(t), default)

MapSeq(s, F(_)) == [i \in 1..Len(s) |-> F(s[i])] \o <<>>
CountIf(s, P(_)) == Len(SelectSeq(s, P))

(* Python `pattern in line` and `line.count(pattern)` on a modelled line *)
Contains(line, p) == p \in DOMAIN line
Count(line, p) == IF p \in DOMAIN line THEN line[p] ELSE 0
ContainsAny(line, ps) == \E p \in ps : Contains(line, p)
Blank == [p \in {} |-> 0]
L1(p) == p :> 1
L2(p, q) == (p :> 1) @@ (q :> 1)
L3(p, q, r) == (p :> 1) @@ (q :> 1) @@ (r :> 1)

(* glob("**/*.<ext>") over the tree *)
Glob(tree, ext) == SelectSeq(tree, LAMBDA f : f.ext = ext)

Severities == <<"critical", "high", "medium", "low", "info">>
SeveritySet == {"critical", "high", "medium", "low", "info"}
Categories == <<"style", "logic", "security", "performance", "maintainability">>

----------------------------------------------------------------------------
(* SecurityScanner (quality-gates/security/scan_security.py) *)

(* self.vulnerabilities as __init__ builds it; no scan_* method appends to it *)
InitVulnerabilities == [s \in SeveritySet |-> <<>>]

(* dangerous_functions, in dict (insertion) order *)
DangerousFunctions == <<
    [pattern |-> "eval(", severity |-> "critical", issue |-> "Use of eval() function"],
    [pattern |-> "exec(", severity |-> "critical", issue |-> "Use of exec() function"],
    [pattern |-> "os.system(", severity |-> "high", issue |-> "Use of os.system()"],
    [pattern |-> "subprocess.call(", severity |-> "medium", issue |-> "Use of subprocess.call()"],
    [pattern |-> "pickle.load(", severity |-> "high", issue |-> "Use of pickle.load()"],
    [pattern |-> "yaml.load(", severity |-> "high", issue |-> "Unsafe YAML loading"],
    [pattern |-> "input(", severity |-> "medium", issue |-> "Use of input() in Python 2 style"] >>

(* dangerous_commands, in dict (insertion) order *)
DangerousCommands == <<
    [pattern |-> "rm -rf /", severity |-> "critical", issue |-> "Dangerous rm command"],
    [pattern |-> "chmod 777", severity |-> "high", issue |-> "Overly permissive permissions"],
    [pattern |-> "curl | bash", severity |-> "high", issue |-> "Piping curl to bash"],
    [pattern |-> "wget | bash", severity |-> "high", issue |-> "Piping wget to bash"],
    [pattern |-> "sudo ", severity |-> "medium", issue |-> "Use of sudo"] >>

(* the regular expressions, named by what they match (re.IGNORECASE applied) *)
SecretPatterns == {"password=<q>", "secret=<q>", "key=<q>", "token=<q>"}
SqlPatterns == {"execute(<q>%", "cursor.execute(f<q>", "<q>+<q>execute"}
PasswordPatterns == {"password=<q>", "passwd=<q>"}
ConfigKeywords == {"password", "secret", "key", "token"}

Finding(file, line_num, severity, issue, code) ==
    [file |-> file, line |-> line_num, severity |-> severity, issue |-> issue,
     code |-> code]

(* the last entry of an ordered pattern table found in the line *)
LastMatch(table, line) ==
    LET hits == {i \in 1..Len(table) : Contains(line, table[i].pattern)}
    IN  IF hits = {} THEN None
        ELSE Some(table[CHOOSE i \in hits : \A j \in hits : i >= j])

(* the first entry of an ordered pattern table found in the line *)
FirstMatch(table, line) ==
    LET hits == {i \in 1..Len(table) : Contains(line, table[i].pattern)}
    IN  IF hits = {} THEN None
        ELSE Some(table[CHOOSE i \in hits : \A j \in hits : i <= j])

_check_python_vulnerability(line, line_num, file_path) ==
    LET m == FirstMatch(DangerousFunctions, line)
    IN  IF IsSome(m)
          THEN Some(Finding(file_path, line_num, m[1].severity, m[1].issue, line))
        ELSE IF ContainsAny(line, SecretPatterns)
          THEN Some(Finding(file_path, line_num, "high", "Potential hardcoded secret", line))
        ELSE IF ContainsAny(line, SqlPatterns)
          THEN Some(Finding(file_path, line_num, "high",
                            "Potential SQL injection vulnerability", line))
        ELSE IF Contains(line, "../") \/ Contains(line, "..\\")
          THEN Some(Finding(file_path, line_num, "medium",
                            "Potential path traversal vulnerability", line))
        ELSE None

_check_shell_vulnerability(line, line_num, file_path) ==
    LET m == FirstMatch(DangerousCommands, line)
    IN  IF IsSome(m)
          THEN Some(Finding(file_path, line_num, m[1].severity, m[1].issue, line))
        ELSE IF Contains(line, "$") /\ (Contains(line, "eval") \/ Contains(line, "source"))
          THEN Some(Finding(file_path, line_num, "high",
                            "Potential command injection via variable", line))
        ELSE IF ContainsAny(line, PasswordPatterns)
          THEN Some(Finding(file_path, line_num, "high", "Potential hardcoded password", line))
        ELSE None

(* a scan that drops a file it cannot read without recording it *)
CouldNotScanSilently(f, what) == <<>>

CouldNotScan(f, what) == <<Finding(f.name, 0, "info", what, Blank)>>

_scan_python_file(f) ==
    IF ~f.readable THEN CouldNotScan(f, "Could not scan file")
    ELSE Flatten([i \in 1..Len(f.lines) |->
                    _check_python_vulnerability(f.lines[i], i, f.name)])

_scan_shell_file(f) ==
    IF ~f.readable THEN CouldNotScan(f, "Could not scan file")
    ELSE Flatten([i \in 1..Len(f.lines) |->
                    _check_shell_vulnerability(f.lines[i], i, f.name)])

_scan_config_line(line, i, file_path) ==
    IF ContainsAny(line, ConfigKeywords) /\ (Contains(line, "=") \/ Contains(line, ":"))
    THEN Some(Finding(file_path, i, "medium", "Potential sensitive data in config file", line))
    ELSE None

_scan_config_file(f) ==
    IF ~f.readable THEN CouldNotScan(f, "Could not scan config file")
    ELSE Flatten([i \in 1..Len(f.lines) |-> _scan_config_line(f.lines[i], i, f.name)])

(* the result of scanning one language: None when the glob finds no file *)
ScanSection(files, scan(_)) ==
    IF Len(files) = 0 THEN None
    ELSE Some([files_scanned |-> Len(files),
               vulnerabilities |-> Flatten(MapSeq(files, scan))])

(* glob of the five configuration patterns, in the order of the list *)
ConfigFiles(tree) ==
    Glob(tree, "yml") \o Glob(tree, "yaml") \o Glob(tree, "json")
    \o Glob(tree, "conf") \o Glob(tree, "ini")

scan_python_files(tree) == ScanSection(Glob(tree, "py"), _scan_python_file)
scan_shell_scripts(tree) == ScanSection(Glob(tree, "sh"), _scan_shell_file)
scan_config_files(tree) == ScanSection(ConfigFiles(tree), _scan_config_file)

(* the section of the general scan, which globs no files of its own *)
FindingsOnly(vulnerabilities) ==
    IF Len(vulnerabilities) = 0 THEN None
    ELSE Some([files_scanned |-> 0, vulnerabilities |-> vulnerabilities])

scan_general_security(tree) ==
    FindingsOnly(
        MapSeq(SelectSeq(tree, LAMBDA f : f.worldWritable),
               LAMBDA f : Finding(f.name, 0, "medium", "World-writable file", Blank))
        \o MapSeq(SelectSeq(tree, LAMBDA f : f.large),
                  LAMBDA f : Finding(f.name, 0, "low", "Very large file", Blank)))

(* SecurityScanner._calculate_summary over self.vulnerabilities *)
ScannerSummary(self_vulnerabilities) ==
    [s \in SeveritySet |-> Len(self_vulnerabilities[s])]
    @@ [k \in {"total"} |-> SumSeq(MapSeq(Severities, LAMBDA s : Len(self_vulnerabilities[s])))]

LanguageOrder == <<"python", "shell", "config", "general">>

(* results["languages"]: the sections whose scan returned a result *)
Present(sections) ==
    [l \in {k \in DOMAIN sections : IsSome(sections[k])} |-> sections[l][1]]

scan_all_files(tree) ==
    [vulnerabilities |-> InitVulnerabilities,
     summary |-> ScannerSummary(InitVulnerabilities),
     languages |-> Present([python |-> scan_python_files(tree),
                            shell |-> scan_shell_scripts(tree),
                            config |-> scan_config_files(tree),
                            general |-> scan_general_security(tree)])]

(* every finding of a scan result, sections in report order *)
Findings(results) ==
    Flatten(MapSeq(SelectSeq(LanguageOrder, LAMBDA l : l \in DOMAIN results.languages),
                   LAMBDA l : results.languages[l].vulnerabilities))

(* the patterns later scans look for that occur in the issue and the
   recommendation texts *)
IssueKeywords(issue) ==
    IF issue = "Potential hardcoded secret" THEN {"secret", "hardcoded"}
    ELSE IF issue = "Potential hardcoded password" THEN {"password", "hardcoded"}
    ELSE {}

RecommendationKeywords(issue) ==
    IF issue = "Potential hardcoded secret" THEN {"secret"} ELSE {}

(* one `"key": value` line of json.dump(..., indent=2): the colon plus the
   keywords its value text contains *)
JsonField(keywords) == [p \in keywords \cup {":"} |-> 1]

HasCode(v) == v.issue \notin {"Could not scan file", "Could not scan config file"}

JsonFinding(v) ==
    <<Blank,
      JsonField({}),
      JsonField({}),
      JsonField({}),
      JsonField(IssueKeywords(v.issue))>>
    \o (IF HasCode(v) THEN <<JsonField(DOMAIN v.code \cap ConfigKeywords)>> ELSE <<>>)
    \o <<JsonField(RecommendationKeywords(v.issue)), Blank>>

JsonSection(l, section) ==
    (IF l = "general" THEN <<JsonField({}), JsonField({})>>
     ELSE <<JsonField({}), JsonField({}), JsonField({})>>)
    \o Flatten(MapSeq(section.vulnerabilities, JsonFinding))
    \o <<Blank, Blank>>

(* the lines of the report file main() writes with json.dump(results, f, indent=2) *)
JsonLines(results) ==
    LET present == SelectSeq(LanguageOrder, LAMBDA l : l \in DOMAIN results.languages)
    IN  <<Blank>>
        \o [i \in 1..6 |-> JsonField({})] \o <<Blank>>
        \o [i \in 1..7 |-> JsonField({})] \o <<Blank>>
        \o <<JsonField({})>>
        \o Flatten(MapSeq(present, LAMBDA l : JsonSection(l, results.languages[l])))
        \o (IF Len(present) = 0 THEN <<>> ELSE <<Blank>>)
        \o <<JsonField({})>> \o [i \in 1..6 |-> Blank] \o <<Blank, Blank>>

(* a file of the tree; lines is content.split('\n'), so a file whose text ends
   with a newline has a last element that is empty *)
File(name, ext, lines) ==
    [name |-> name, ext |-> ext, lines |-> lines,
     readable |-> TRUE, worldWritable |-> FALSE, large |-> FALSE,
     syntaxOk |-> TRUE, defs |-> <<>>, ifs |-> <<>>, dir |-> ""]

(* open(report_file, 'w'): creates the file, or truncates the one of that name *)
WriteFile(tree, f) ==
    IF \E i \in 1..Len(tree) : tree[i].name = f.name
    THEN [i \in 1..Len(tree) |-> IF tree[i].name = f.name THEN f ELSE tree[i]]
    ELSE Append(tree, f)

SecurityReportName(t) == "quality-gates/security/security-report-" \o ToString(t) \o ".json"

(* scan_security.main: scan, then save the results under the current second *)
SecurityMainWrite(tree, t) ==
    WriteFile(tree, File(SecurityReportName(t), "json", JsonLines(scan_all_files(tree))))

----------------------------------------------------------------------------
(* CodeReviewAutomator (quality-gates/review/automate_review.py) *)

(* self.issues as __init__ builds it; no review_* method appends to it *)
InitIssues == [c \in {"style", "logic", "security", "performance", "maintainability"} |-> <<>>]

Issue(file, line_num, category, severity, issue) ==
    [file |-> file, line |-> line_num, category |-> category, severity |-> severity,
     issue |-> issue]

ReadmeNames == {"README.md", "docs/README.txt"}
(* directories whose name starts with README *)
ReadmeDirs == {"README.d"}
TestPyNames == {"tests/unit_test.py"}

(* a def of the parsed tree: [kind |-> "def", "async" or "class", name, line, end_line,
   body (statements in node.body), args, doc (has a docstring)] *)
Def(kind, line, end_line, body, args, doc) ==
    [kind |-> kind, line |-> line, end_line |-> end_line, body |-> body, args |-> args,
     doc |-> doc]

DefIssues(file_path, d) ==
    IF d.kind = "def"
    THEN (IF d.body > 50
          THEN <<Issue(file_path, d.line, "maintainability", "medium", "Function is too long")>>
          ELSE <<>>)
         \o (IF d.args > 5
             THEN <<Issue(file_path, d.line, "maintainability", "medium",
                          "Function has too many parameters")>>
             ELSE <<>>)
    ELSE IF d.kind = "class" /\ d.body > 200
         THEN <<Issue(file_path, d.line, "maintainability", "medium", "Class is too large")>>
         ELSE <<>>

(* _analyze_ast: f.ifs holds the nesting depth found at each ast.If visited *)
_analyze_ast(f) ==
    Flatten(MapSeq(f.defs, LAMBDA d : DefIssues(f.name, d)))
    \o MapSeq(SelectSeq(f.ifs, LAMBDA depth : depth > 3),
              LAMBDA depth : Issue(f.name, 0, "maintainability", "medium",
                                   "Deeply nested if statements"))

_analyze_python_line(line, line_num, file_path) ==
    (IF Contains(line, "len>88")
     THEN <<Issue(file_path, line_num, "style", "low", "Line too long")>> ELSE <<>>)
    \o (IF Contains(line, "TODO")
        THEN <<Issue(file_path, line_num, "maintainability", "low", "TODO comment found")>>
        ELSE <<>>)
    \o (IF Contains(line, "print(") /\ file_path \notin TestPyNames
        THEN <<Issue(file_path, line_num, "style", "medium",
                     "Print statement in production code")>>
        ELSE <<>>)
    \o (IF Contains(line, "except:") /\ ~Contains(line, "Exception")
        THEN <<Issue(file_path, line_num, "logic", "medium", "Bare except clause")>>
        ELSE <<>>)
    \o [k \in 1..Count(line, "magic number") |->
            Issue(file_path, line_num, "maintainability", "low", "Magic number found")]

_analyze_shell_line(line, line_num, file_path) ==
    (IF Contains(line, "$VAR")
     THEN <<Issue(file_path, line_num, "logic", "medium", "Unquoted variable expansion")>>
     ELSE <<>>)
    \o (IF line_num = 1 /\ ~Contains(line, "set -e")
        THEN <<Issue(file_path, line_num, "logic", "medium",
                     "Missing 'set -e' for error handling")>>
        ELSE <<>>)
    \o (IF Contains(line, "/usr/local") \/ Contains(line, "/opt/")
        THEN <<Issue(file_path, line_num, "maintainability", "low", "Hardcoded system path")>>
        ELSE <<>>)

(* `not line_clean or line_clean.startswith('#')` *)
Skipped(line) == DOMAIN line = {} \/ Contains(line, "^#")

CouldNotReview(f, what) == <<Issue(f.name, 0, "logic", "info", what)>>

(* a review that gives up on a file at its syntax error *)
ReviewStopsAtSyntaxError(f) ==
    IF ~f.readable THEN CouldNotReview(f, "Could not review file")
    ELSE IF ~f.syntaxOk THEN <<Issue(f.name, 1, "logic", "high", "Syntax error")>>
    ELSE _analyze_ast(f)
         \o Flatten([i \in 1..Len(f.lines) |->
                        IF Skipped(f.lines[i]) THEN <<>>
                        ELSE _analyze_python_line(f.lines[i], i, f.name)])

_review_python_file(f) ==
    IF ~f.readable THEN CouldNotReview(f, "Could not review file")
    ELSE (IF f.syntaxOk THEN _analyze_ast(f)
          ELSE <<Issue(f.name, 1, "logic", "high", "Syntax error")>>)
         \o Flatten([i \in 1..Len(f.lines) |->
                        IF Skipped(f.lines[i]) THEN <<>>
                        ELSE _analyze_python_line(f.lines[i], i, f.name)])

_review_shell_file(f) ==
    IF ~f.readable THEN CouldNotReview(f, "Could not review file")
    ELSE Flatten([i \in 1..Len(f.lines) |->
                    IF Skipped(f.lines[i]) THEN <<>>
                    ELSE _analyze_shell_line(f.lines[i], i, f.name)])

_review_config_file(f) ==
    IF ~f.readable THEN CouldNotReview(f, "Could not review config file")
    ELSE Flatten([i \in 1..Len(f.lines) |->
                    IF Contains(f.lines[i], "^#")
                       /\ (Contains(f.lines[i], "=") \/ Contains(f.lines[i], ":"))
                    THEN <<Issue(f.name, i, "maintainability", "low",
                                 "Commented out configuration")>>
                    ELSE <<>>])

ReviewSection(files, review(_)) ==
    IF Len(files) = 0 THEN None
    ELSE Some([files_reviewed |-> Len(files), issues |-> Flatten(MapSeq(files, review))])

review_python_files(tree) == ReviewSection(Glob(tree, "py"), _review_python_file)
review_shell_scripts(tree) == ReviewSection(Glob(tree, "sh"), _review_shell_file)
review_config_files(tree) == ReviewSection(ConfigFiles(tree), _review_config_file)

(* a count of the defs of every kind that have no docstring *)
UndocumentedOfAnyKind(f) ==
    IF f.readable /\ f.syntaxOk THEN CountIf(f.defs, LAMBDA d : ~d.doc) ELSE 0

(* the ast.FunctionDef and ast.ClassDef nodes without a docstring; a file
   that cannot be read or parsed counts nothing *)
Undocumented(f) ==
    IF f.readable /\ f.syntaxOk
    THEN CountIf(f.defs, LAMBDA d : d.kind \in {"def", "class"} /\ ~d.doc)
    ELSE 0

(* the section of a review step that globs no files of its own *)
IssuesOnly(issues) ==
    IF Len(issues) = 0 THEN None ELSE Some([files_reviewed |-> 0, issues |-> issues])

review_documentation(tree) ==
    IssuesOnly(
        (IF Len(SelectSeq(tree, LAMBDA f : f.name \in ReadmeNames
                                            \/ f.dir \in ReadmeDirs)) = 0
         THEN <<Issue("project_root", 0, "maintainability", "medium",
                      "Missing README file")>>
         ELSE <<>>)
        \o (IF SumSeq(MapSeq(Glob(tree, "py"), Undocumented)) > 0
            THEN <<Issue("multiple_files", 0, "maintainability", "low",
                         "functions/classes missing docstrings")>>
            ELSE <<>>))

(* CodeReviewAutomator._calculate_summary over self.issues *)
ReviewSummary(self_issues) == [c \in DOMAIN self_issues |-> Len(self_issues[c])]

Deductions == [style |-> 1, logic |-> 5, security |-> 10, performance |-> 3,
               maintainability |-> 2]

(* a deduction that drops to nothing once it passes the cap *)
ScoreCapResets(self_issues) ==
    LET counts == ReviewSummary(self_issues)
        score == 100 - SumSeq(MapSeq(Categories,
                                     LAMBDA c : IF counts[c] * Deductions[c] > 20 THEN 0
                                                ELSE counts[c] * Deductions[c]))
    IN  Max2(0, score)

(* CodeReviewAutomator._calculate_score *)
_calculate_score(self_issues) ==
    LET counts == ReviewSummary(self_issues)
        score == 100 - SumSeq(MapSeq(Categories,
                                     LAMBDA c : Min2(counts[c] * Deductions[c], 20)))
    IN  Max2(0, score)

ReviewOrder == <<"python", "shell", "config", "documentation">>

run_full_review(tree) ==
    [issues |-> InitIssues,
     summary |-> ReviewSummary(InitIssues),
     languages |-> Present([python |-> review_python_files(tree),
                            shell |-> review_shell_scripts(tree),
                            config |-> review_config_files(tree),
                            documentation |-> review_documentation(tree)]),
     score |-> _calculate_score(InitIssues)]

(* every Finding of a review result, sections in report order *)
ReviewFindings(results) ==
    Flatten(MapSeq(SelectSeq(ReviewOrder, LAMBDA l : l \in DOMAIN results.languages),
                   LAMBDA l : results.languages[l].issues))

----------------------------------------------------------------------------
(* ComplexityAnalyzer (quality-gates/complexity/analyze_complexity.py) *)

cyclomatic == 10
lines_per_function == 50
lines_per_file == 300

BranchKeywords == {"if ", "elif ", "for ", "while ", "case ", "&&", "||"}

(* one per line holding a branch keyword, one per line holding "except ", and
   one per occurrence of " and " and " or " *)
_calculate_cyclomatic_complexity(lines) ==
    1 + SumSeq(MapSeq(lines, LAMBDA line :
            (IF ContainsAny(line, BranchKeywords) THEN 1 ELSE 0)
            + (IF Contains(line, "except ") THEN 1 ELSE 0)
            + Count(line, " and ") + Count(line, " or ")))

(* lines[node.lineno - 1 : node.end_lineno] *)
_analyze_python_function(d, lines) ==
    LET function_lines == SubSeq(lines, d.line, Min2(d.end_line, Len(lines)))
    IN  [line |-> d.line,
         lines |-> Len(function_lines),
         complexity |-> _calculate_cyclomatic_complexity(function_lines),
         args |-> d.args]

_analyze_python_file(f) ==
    [file |-> f.name,
     total_lines |-> Len(f.lines),
     functions |-> MapSeq(SelectSeq(f.defs, LAMBDA d : d.kind = "def"),
                          LAMBDA d : _analyze_python_function(d, f.lines))]

(* an analysis that takes every file for readable and well-formed *)
AnalysesAnyFile(f) == TRUE

(* _analyze_python_file returns: open(), read() and ast.parse raise nothing *)
PythonAnalysable(f) == f.readable /\ f.syntaxOk

(* a file whose open() or ast.parse raises is reported on stdout and left out *)
analyze_python_files(tree) ==
    LET python_files == Glob(tree, "py")
        files == MapSeq(SelectSeq(python_files, PythonAnalysable), _analyze_python_file)
        InFile(r, P(_)) ==
            MapSeq(SelectSeq(r.functions, P),
                   LAMBDA fn : [file |-> r.file, line |-> fn.line, lines |-> fn.lines,
                                complexity |-> fn.complexity])
    IN  IF Len(python_files) = 0 THEN None
        ELSE Some([file_count |-> Len(python_files),
                   files |-> files,
                   complex_functions |->
                       Flatten(MapSeq(files, LAMBDA r :
                           InFile(r, LAMBDA fn : fn.complexity > cyclomatic))),
                   long_functions |->
                       Flatten(MapSeq(files, LAMBDA r :
                           InFile(r, LAMBDA fn : fn.lines > lines_per_function))),
                   long_files |->
                       SelectSeq(files, LAMBDA r : r.total_lines > lines_per_file)])

(* line.strip() matches ^(?:function\s+)?(\w+)\s*\(\)\s*\{ *)
ShellFunctionStart(line) == Contains(line, "^name() {")

(* _find_shell_function_end: the first line from start_idx on at which the
   braces opened since start_idx are all closed and that holds a "}" *)
RECURSIVE FindShellEnd(_, _, _)
FindShellEnd(lines, i, brace_count) ==
    IF i > Len(lines) THEN None
    ELSE LET count == brace_count + Count(lines[i], "{") - Count(lines[i], "}")
         IN  IF count = 0 /\ Contains(lines[i], "}") THEN Some(i)
             ELSE FindShellEnd(lines, i + 1, count)

_find_shell_function_end(lines, start_idx) == FindShellEnd(lines, start_idx, 0)

(* func_lines = end_line - i if end_line else 10, on 0-based indexes: an end
   at index 0 is falsy *)
_analyze_shell_file(f) ==
    LET starts == SelectSeq([i \in 1..Len(f.lines) |-> i],
                            LAMBDA i : ShellFunctionStart(f.lines[i]))
        func(i) == LET end_line == _find_shell_function_end(f.lines, i)
                   IN  [line |-> i,
                        lines |-> IF IsSome(end_line) /\ end_line[1] - 1 # 0
                                  THEN end_line[1] - i ELSE 10]
    IN  [file |-> f.name,
         total_lines |-> Len(f.lines),
         functions |-> MapSeq(starts, func)]

(* a file whose open() raises is reported on stdout and left out *)
analyze_shell_files(tree) ==
    LET shell_files == Glob(tree, "sh")
        files == MapSeq(SelectSeq(shell_files, LAMBDA f : f.readable), _analyze_shell_file)
    IN  IF Len(shell_files) = 0 THEN None
        ELSE Some([file_count |-> Len(shell_files),
                   files |-> files,
                   complex_functions |-> <<>>,
                   long_functions |->
                       Flatten(MapSeq(files, LAMBDA r :
                           MapSeq(SelectSeq(r.functions,
                                            LAMBDA fn : fn.lines > lines_per_function),
                                  LAMBDA fn : [file |-> r.file, line |-> fn.line,
                                               lines |-> fn.lines]))),
                   long_files |->
                       SelectSeq(files, LAMBDA r : r.total_lines > lines_per_file)])

(* analyze_all_files: the language sections that are not None, and the
   summary counted from them *)
analyze_all_files(tree) ==
    LET python_results == analyze_python_files(tree)
        shell_results == analyze_shell_files(tree)
        sections == python_results \o shell_results
        total(field) == SumSeq(MapSeq(sections, LAMBDA r : Len(r[field])))
    IN  [languages |->
             (IF IsSome(python_results) THEN [l \in {"python"} |-> python_results[1]]
              ELSE [l \in {} |-> 0])
             @@ (IF IsSome(shell_results) THEN [l \in {"shell"} |-> shell_results[1]]
                 ELSE [l \in {} |-> 0]),
         summary |->
             [total_files |-> SumSeq(MapSeq(sections, LAMBDA r : r.file_count)),
              complex_files |-> total("complex_functions"),
              high_complexity_functions |-> total("complex_functions"),
              long_functions |-> total("long_functions"),
              long_files |-> total("long_files")]]

ComplexityReportName(t) ==
    "quality-gates/complexity/complexity-report-" \o ToString(t) \o ".json"

(* the report main() writes with json.dump(results, f, indent=2): the summary
   object, then one object per entry of each list of each language *)
ComplexityJsonLines(results) ==
    LET entries == results.summary.complex_files + results.summary.long_functions
                   + results.summary.long_files
    IN  [i \in 1..(12 + 6 * entries) |-> JsonField({})]

ComplexityMainWrite(tree, t) ==
    WriteFile(tree, File(ComplexityReportName(t), "json",
                         ComplexityJsonLines(analyze_all_files(tree))))

----------------------------------------------------------------------------
(* QualityGateManager (quality-gates/run_quality_gates.py): thresholds *)

max_errors == 0
max_warnings == 10
max_complexity == 10
max_lines == 100
max_critical == 0
max_high == 0
max_medium == 5

_has_python_files(tree) == Len(Glob(tree, "py")) > 0
_has_shell_files(tree) == Len(Glob(tree, "sh")) > 0
_has_yaml_files(tree) == Len(Glob(tree, "yml")) + Len(Glob(tree, "yaml")) > 0

(* Outcome of subprocess.run on an external tool:
     found  : FALSE when the executable named in cmd[0] is not on PATH
              (subprocess.run raises FileNotFoundError)
     rc     : the exit status
     errors : output lines (stdout + stderr) that contain "error"
     others : other non-blank output lines
   `python3 -m <tool>` with the module not installed is found = TRUE, rc = 1 and
   the interpreter's single line "No module named <tool>".                     *)
Tool(found, rc, errors, others) ==
    [found |-> found, rc |-> rc, errors |-> errors, others |-> others]
NotOnPath == Tool(FALSE, 0, 0, 0)
ModuleMissing == Tool(TRUE, 1, 0, 1)
Clean == Tool(TRUE, 0, 0, 0)

LintResult(errors, warnings, fallback, raised) ==
    [errors |-> errors, warnings |-> warnings, fallback |-> fallback, raised |-> raised]

(* _run_python_linting: flake8 through `python3 -m flake8`; the syntax-only
   check runs in the FileNotFoundError handler, where read_text() is unguarded *)
_run_python_linting(tree, flake8) ==
    IF flake8.found
    THEN IF flake8.rc = 0 THEN LintResult(0, 0, FALSE, FALSE)
         ELSE LintResult(flake8.errors, flake8.others, FALSE, FALSE)
    ELSE LET py == Glob(tree, "py")
         IN  LintResult(CountIf(py, LAMBDA f : ~f.syntaxOk), 0, TRUE,
                        \E i \in 1..Len(py) : ~py[i].readable)

(* _run_shell_linting: shellcheck; `bash -n` per file in the FileNotFoundError
   handler (bash reports an unreadable file by a non-zero exit) *)
_run_shell_linting(tree, shellcheck) ==
    IF shellcheck.found
    THEN IF shellcheck.rc = 0 THEN LintResult(0, 0, FALSE, FALSE)
         ELSE LintResult(shellcheck.errors, shellcheck.others, FALSE, FALSE)
    ELSE LintResult(CountIf(Glob(tree, "sh"), LAMBDA f : ~f.syntaxOk \/ ~f.readable),
                    0, TRUE, FALSE)

(* _run_yaml_linting: yaml.safe_load per file when PyYAML imports; only
   yaml.YAMLError is caught, so a failing open() propagates *)
_run_yaml_linting(tree, pyyaml) ==
    IF ~pyyaml THEN LintResult(0, 0, FALSE, FALSE)
    ELSE LET ym == Glob(tree, "yml") \o Glob(tree, "yaml")
         IN  LintResult(CountIf(ym, LAMBDA f : f.readable /\ ~f.syntaxOk), 0, FALSE,
                        \E i \in 1..Len(ym) : ~ym[i].readable)

(* an off-by-one reading of the warning threshold *)
LintStatusWarningAtLimit(total_errors, total_warnings) ==
    IF total_errors > 0 THEN "failed"
    ELSE IF total_warnings >= 10 THEN "warning"
    ELSE "passed"

LintStatus(total_errors, total_warnings) ==
    IF total_errors > max_errors THEN "failed"
    ELSE IF total_warnings > max_warnings THEN "warning"
    ELSE "passed"

run_linting_checks(tree, flake8, shellcheck, pyyaml) ==
    LET languages ==
            (IF _has_python_files(tree)
             THEN [l \in {"python"} |-> _run_python_linting(tree, flake8)]
             ELSE [l \in {} |-> 0])
            @@ (IF _has_shell_files(tree)
                THEN [l \in {"shell"} |-> _run_shell_linting(tree, shellcheck)]
                ELSE [l \in {} |-> 0])
            @@ (IF _has_yaml_files(tree)
                THEN [l \in {"yaml"} |-> _run_yaml_linting(tree, pyyaml)]
                ELSE [l \in {} |-> 0])
        langs == SelectSeq(<<"python", "shell", "yaml">>, LAMBDA l : l \in DOMAIN languages)
        total_errors == SumSeq(MapSeq(langs, LAMBDA l : languages[l].errors))
        total_warnings == SumSeq(MapSeq(langs, LAMBDA l : languages[l].warnings))
    IN  [status |-> LintStatus(total_errors, total_warnings),
         languages |-> languages,
         total_errors |-> total_errors,
         total_warnings |-> total_warnings,
         raised |-> \E l \in DOMAIN languages : languages[l].raised]

(* Outcome of `python3 -m radon cc --min C --show-complexity <root>`:
     found : python3 is on PATH
     rc    : the exit status (1 with "No module named radon" on stderr)
     bare  : FALSE for radon's format, a path line and then one line
             "F 1:0 name - C (16)" per function of rank C or worse (6 parts, the
             last "(16)"); TRUE for a tool that ends those lines with the bare
             number, which int() accepts                                        *)
Radon(found, rc, bare) == [found |-> found, rc |-> rc, bare |-> bare]

(* a line of stdout: the number of whitespace-separated parts and the last
   part, Some(n) when int() accepts it *)
RadonLine(parts, last) == [parts |-> parts, last |-> last]

(* the lowest complexity of rank C, the --min of the command *)
MinRank == 11

DecisionPoints == <<"if ", "elif ", "for ", "while ", "except ", " and ", " or ">>

(* the complexity radon computes for a function: decision points + 1 *)
McCabe(f, d) ==
    1 + SumSeq(MapSeq(SubSeq(f.lines, d.line, Min2(d.end_line, Len(f.lines))),
                      LAMBDA l : SumSeq(MapSeq(DecisionPoints, LAMBDA k : Count(l, k)))))

RadonStdout(tree, radon) ==
    LET block(f) ==
            LET shown == SelectSeq(f.defs, LAMBDA d : d.kind = "def" /\ McCabe(f, d) >= MinRank)
            IN  IF Len(shown) = 0 \/ ~f.readable \/ ~f.syntaxOk THEN <<>>
                ELSE <<RadonLine(1, None)>>
                     \o MapSeq(shown, LAMBDA d :
                            IF radon.bare THEN RadonLine(3, Some(McCabe(f, d)))
                            ELSE RadonLine(6, None))
    IN  Flatten(MapSeq(Glob(tree, "py"), block))

FileLineCount(f) == Len(f.lines)

(* the fallback of _run_python_complexity and the loop of _run_shell_complexity:
   files whose line count exceeds max_lines; a failing read_text() is passed over *)
LongFiles(files) ==
    MapSeq(SelectSeq(files, LAMBDA f : f.readable /\ FileLineCount(f) > max_lines),
           LAMBDA f : [file |-> f.name, lines |-> FileLineCount(f)])

_run_python_complexity(tree, radon) ==
    IF ~radon.found
    THEN [complex_functions |-> <<>>, long_functions |-> LongFiles(Glob(tree, "py")),
          raised |-> FALSE]
    ELSE IF radon.rc # 0
    THEN [complex_functions |-> <<>>, long_functions |-> <<>>, raised |-> FALSE]
    ELSE LET parsed == SelectSeq(RadonStdout(tree, radon), LAMBDA l : l.parts >= 3)
         IN  [complex_functions |->
                  MapSeq(SelectSeq(parsed, LAMBDA l : IsSome(l.last)
                                                      /\ l.last[1] > max_complexity),
                         LAMBDA l : [complexity |-> l.last[1]]),
              long_functions |-> <<>>,
              raised |-> \E i \in 1..Len(parsed) : ~IsSome(parsed[i].last)]

(* content.count("function ") + content.count("() {") *)
ShellFunctionCount(f) ==
    SumSeq(MapSeq(f.lines, LAMBDA l : Count(l, "function ") + Count(l, "() {")))

_run_shell_complexity(tree) ==
    LET sh == SelectSeq(Glob(tree, "sh"), LAMBDA f : f.readable)
    IN  [complex_functions |->
             MapSeq(SelectSeq(sh, LAMBDA f : ShellFunctionCount(f) > 20),
                    LAMBDA f : [file |-> f.name, functions |-> ShellFunctionCount(f)]),
         long_functions |-> LongFiles(sh),
         raised |-> FALSE]

(* f.get(key, 0) *)
GetOr0(f, key) == IF key \in DOMAIN f THEN f[key] ELSE 0

ComplexityStatus(maxc, maxl) ==
    IF maxc > max_complexity THEN "failed"
    ELSE IF maxl > max_lines THEN "warning"
    ELSE "passed"

run_complexity_analysis(tree, radon) ==
    LET none == [complex_functions |-> <<>>, long_functions |-> <<>>, raised |-> FALSE]
        python_result == IF _has_python_files(tree) THEN _run_python_complexity(tree, radon)
                         ELSE none
        shell_result == IF _has_shell_files(tree) THEN _run_shell_complexity(tree) ELSE none
        complex_functions == python_result.complex_functions \o shell_result.complex_functions
        long_functions == python_result.long_functions \o shell_result.long_functions
        maxc == MaxSeq(MapSeq(complex_functions, LAMBDA f : GetOr0(f, "complexity")), 0)
        maxl == MaxSeq(MapSeq(long_functions, LAMBDA f : GetOr0(f, "lines")), 0)
    IN  [status |-> ComplexityStatus(maxc, maxl),
         complex_functions |-> complex_functions,
         long_functions |-> long_functions,
         max_complexity |-> maxc,
         max_lines |-> maxl,
         raised |-> python_result.raised]

(* bandit's outcome: found/rc as for Tool; json: stdout parses as JSON;
   severities: issue_severity of each entry of its "results" *)
Bandit(found, rc, json, severities) ==
    [found |-> found, rc |-> rc, json |-> json, severities |-> severities]

Lower(sev) ==
    IF sev = "HIGH" THEN "high" ELSE IF sev = "MEDIUM" THEN "medium"
    ELSE IF sev = "LOW" THEN "low" ELSE sev

ContentContains(f, p) == \E i \in 1..Len(f.lines) : Contains(f.lines[i], p)

(* the dangerous-pattern checks of _run_security_scan on one shell file *)
ShellFileIssues(f) ==
    IF ~f.readable THEN <<>>
    ELSE (IF ContentContains(f, "rm -rf /") THEN <<"Dangerous: rm -rf /">> ELSE <<>>)
         \o (IF ContentContains(f, "chmod 777") THEN <<"Dangerous: chmod 777">> ELSE <<>>)
         \o (IF ContentContains(f, "sudo") /\ ContentContains(f, "password")
             THEN <<"Potential password exposure">> ELSE <<>>)

_run_security_scan(tree, bandit) ==
    LET issues == IF bandit.found /\ bandit.rc = 0 /\ bandit.json
                  THEN MapSeq(bandit.severities, Lower) ELSE <<>>
        fromBandit == [s \in SeveritySet |->
                          MapSeq(SelectSeq(issues, LAMBDA x : x = s),
                                 LAMBDA x : "bandit issue")]
        info == IF ~bandit.found
                THEN <<"bandit not available for Python security scanning">> ELSE <<>>
        shell == Flatten(MapSeq(Glob(tree, "sh"), ShellFileIssues))
    IN  [fromBandit EXCEPT !["info"] = @ \o info, !["high"] = @ \o shell]

(* Outcome of running a dedicated analyzer script as a subprocess:
     exists  : the script file is present under quality-gates/
     spawned : subprocess.run returned (FALSE: it raised)
     rc      : exit status of the script
     report  : the latest report file is found and json.load reads it       *)
Script(exists, spawned, rc, report) ==
    [exists |-> exists, spawned |-> spawned, rc |-> rc, report |-> report]

ScriptSucceeded(script) == script.exists /\ script.spawned /\ script.rc = 0

(* an off-by-one reading of the medium threshold *)
SecurityStatusMediumAtLimit(vulnerabilities) ==
    IF Len(vulnerabilities["critical"]) > 0 \/ Len(vulnerabilities["high"]) > 0 THEN "failed"
    ELSE IF Len(vulnerabilities["medium"]) >= 5 THEN "warning"
    ELSE "passed"

SecurityStatus(vulnerabilities) ==
    IF Len(vulnerabilities["critical"]) > max_critical THEN "failed"
    ELSE IF Len(vulnerabilities["high"]) > max_high THEN "failed"
    ELSE IF Len(vulnerabilities["medium"]) > max_medium THEN "warning"
    ELSE "passed"

run_security_scanning(tree, scanner, bandit) ==
    LET vulnerabilities ==
            IF ScriptSucceeded(scanner)
            THEN IF scanner.report THEN scan_all_files(tree).vulnerabilities
                 ELSE InitVulnerabilities
            ELSE _run_security_scan(tree, bandit)
    IN  [status |-> SecurityStatus(vulnerabilities),
         vulnerabilities |-> vulnerabilities,
         fallback |-> ~ScriptSucceeded(scanner)]

(* result of a fallback check: score = max(0, min(100, 100 + score)) and
   "passed" if score >= 80 else "warning" if score >= 60 else "failed" *)
Check(penalty, issues) ==
    LET score == Max2(0, Min2(100, 100 - penalty))
    IN  [status |-> IF score >= 80 THEN "passed"
                    ELSE IF score >= 60 THEN "warning" ELSE "failed",
         score |-> score,
         issues |-> issues]

HasDocstring(f) == f.readable /\ ContentContains(f, "docstring quotes")

_check_documentation(tree) ==
    LET readme_files == SelectSeq(tree, LAMBDA f : f.name = "README.md")
        python_files == Glob(tree, "py")
        files_with_docstrings == CountIf(python_files, HasDocstring)
        low == Len(python_files) > 0 /\ 2 * files_with_docstrings < Len(python_files)
    IN  Check((IF Len(readme_files) = 0 THEN 20 ELSE 0) + (IF low THEN 10 ELSE 0),
              (IF Len(readme_files) = 0 THEN <<"Missing README file">> ELSE <<>>)
              \o (IF low THEN <<"Low docstring coverage">> ELSE <<>>))

(* lines with "def " whose function name has an upper-case letter after the first *)
CamelDefs(f) ==
    IF ~f.readable THEN 0
    ELSE CountIf(f.lines, LAMBDA l : Contains(l, "def ") /\ Contains(l, "def camelCase"))

_check_naming_conventions(tree) ==
    LET n == SumSeq(MapSeq(Glob(tree, "py"), CamelDefs))
    IN  Check(5 * n, [i \in 1..n |-> "should use snake_case"])

RequiredDirs == <<"scripts", "vendor", "tests", "docs">>
DirExists(tree, d) == \E i \in 1..Len(tree) : tree[i].dir = d

_check_code_structure(tree) ==
    LET python_files == Glob(tree, "py")
        py_dirs == {python_files[i].dir : i \in 1..Len(python_files)} \ {""}
        missing == SelectSeq(RequiredDirs, LAMBDA d : ~DirExists(tree, d))
        crowded == Len(python_files) > 10 /\ Cardinality(py_dirs) < 3
    IN  Check(10 * Len(missing) + (IF crowded THEN 10 ELSE 0),
              MapSeq(missing, LAMBDA d : "Missing required directory")
              \o (IF crowded THEN <<"Python files may need better organization">>
                  ELSE <<>>))

SecretWords == <<"password", "secret", "key", "token">>

(* the first secret pattern found in a file's text, when the text also has
   "hardcoded" or "=": the `break` reports one issue per file *)
HardcodedSecret(f) ==
    LET hits == SelectSeq(SecretWords, LAMBDA p : ContentContains(f, p))
    IN  IF f.readable /\ f.ext \notin {"pyc", "pyo"} /\ Len(hits) > 0
           /\ (ContentContains(f, "hardcoded") \/ ContentContains(f, "="))
        THEN <<hits[1]>> ELSE <<>>

TodoCount(f) ==
    IF ~f.readable THEN 0 ELSE SumSeq(MapSeq(f.lines, LAMBDA l : Count(l, "TODO")))

_check_best_practices(tree) ==
    LET secrets == Flatten(MapSeq(tree, HardcodedSecret))
        todos == SumSeq(MapSeq(tree, TodoCount)) > 20
    IN  Check(15 * Len(secrets) + (IF todos THEN 10 ELSE 0),
              secrets \o (IF todos THEN <<"High TODO count">> ELSE <<>>))

FallbackChecks(tree) ==
    [documentation |-> _check_documentation(tree),
     naming |-> _check_naming_conventions(tree),
     structure |-> _check_code_structure(tree),
     best_practices |-> _check_best_practices(tree)]

(* a reading that takes the lower limit of warning as exclusive *)
ReviewStatusAboveLimit(score) ==
    IF score >= 90 THEN "passed" ELSE IF score > 75 THEN "warning" ELSE "failed"

(* a status that stays as initialised when no score was obtained *)
ReviewStatusUnsetWithoutScore(score) ==
    IF score = 0 THEN "unknown"
    ELSE IF score >= 90 THEN "passed"
    ELSE IF score >= 75 THEN "warning"
    ELSE "failed"

ReviewStatus(score) ==
    IF score >= 90 THEN "passed" ELSE IF score >= 75 THEN "warning" ELSE "failed"

(* a score that takes a check with a warning for a check that passed *)
ReviewScoreCountsWarnings(read, checks) ==
    IF read = 0 /\ Cardinality(DOMAIN checks) > 0
    THEN (Cardinality({c \in DOMAIN checks : checks[c].status \in {"passed", "warning"}})
          * 100) \div Cardinality(DOMAIN checks)
    ELSE read

(* the overall score: the one read from the review report, or when that is 0
   and checks ran, the share of checks that passed *)
ReviewScore(read, checks) ==
    IF read = 0 /\ Cardinality(DOMAIN checks) > 0
    THEN (Cardinality({c \in DOMAIN checks : checks[c].status = "passed"}) * 100)
         \div Cardinality(DOMAIN checks)
    ELSE read

ReviewResult(score, checks, fallback) ==
    [status |-> ReviewStatus(score), score |-> score, checks |-> checks,
     fallback |-> fallback]

run_code_review_checks(tree, reviewer) ==
    IF ScriptSucceeded(reviewer)
    THEN ReviewResult(IF reviewer.report THEN run_full_review(tree).score ELSE 0,
                      [c \in {} |-> "unknown"], FALSE)
    ELSE ReviewResult(ReviewScore(0, FallbackChecks(tree)), FallbackChecks(tree), TRUE)

(* the precedence with warning tested before failed *)
WarningBeforeFailed(gate_results) ==
    LET statuses == {gate_results[g] : g \in DOMAIN gate_results}
    IN  IF "warning" \in statuses THEN "warning"
        ELSE IF "failed" \in statuses THEN "failed"
        ELSE IF \A st \in statuses : st = "passed" THEN "passed"
        ELSE "unknown"

(* QualityGateManager._calculate_overall_status over the gates' statuses *)
_calculate_overall_status(gate_results) ==
    LET statuses == {gate_results[g] : g \in DOMAIN gate_results}
    IN  IF "failed" \in statuses THEN "failed"
        ELSE IF "warning" \in statuses THEN "warning"
        ELSE IF \A st \in statuses : st = "passed" THEN "passed"
        ELSE "unknown"

GateOrder == <<"linting", "complexity", "security", "review">>

(* a summary that lists the gates with a warning among the critical issues *)
SummaryListsWarnings(gate_results) ==
    LET names == SelectSeq(GateOrder, LAMBDA g : g \in DOMAIN gate_results)
        n(st) == CountIf(names, LAMBDA g : gate_results[g] = st)
    IN  [total_gates |-> Cardinality(DOMAIN gate_results),
         passed_gates |-> n("passed"),
         warning_gates |-> n("warning"),
         failed_gates |-> n("failed"),
         critical_issues |->
             SelectSeq(names, LAMBDA g : gate_results[g] \in {"failed", "warning"})]

(* QualityGateManager._generate_summary *)
_generate_summary(gate_results) ==
    LET names == SelectSeq(GateOrder, LAMBDA g : g \in DOMAIN gate_results)
        n(st) == CountIf(names, LAMBDA g : gate_results[g] = st)
    IN  [total_gates |-> Cardinality(DOMAIN gate_results),
         passed_gates |-> n("passed"),
         warning_gates |-> n("warning"),
         failed_gates |-> n("failed"),
         critical_issues |-> SelectSeq(names, LAMBDA g : gate_results[g] = "failed")]

(* report_file of _save_results: named by int(results["timestamp"]) *)
ReportName(t) == "quality-gates/reports/quality-gate-report-" \o ToString(t) \o ".json"

(* open(report_file, 'w') + json.dump: the file of that name now holds results *)
_save_results(files, results) ==
    [t \in DOMAIN files \cup {results.timestamp} |->
        IF t = results.timestamp THEN results ELSE files[t]]

(* an exit code that lets only passed through *)
ExitCodeWarningBlocks(overall_status) ==
    IF overall_status = "passed" THEN 0 ELSE 1

(* sys.exit code chosen at the end of main *)
ExitCodeOf(overall_status) ==
    IF overall_status = "passed" THEN 0
    ELSE IF overall_status = "warning" THEN 0
    ELSE 1

TextLine(tokens) == [p \in tokens |-> 1]

ReviewReportName(t) == "quality-gates/review/review-report-" \o ToString(t) \o ".json"

JsonIssue(v) ==
    LET todo == IF v.issue = "TODO comment found" THEN {"TODO"} ELSE {}
    IN  <<Blank, JsonField({}), JsonField({}), JsonField({}), JsonField({}),
          JsonField(todo), JsonField(todo), Blank>>

(* automate_review.main: review, then save the results under the current second *)
(* the lines of the report file main() writes with json.dump(results, f, indent=2) *)
ReviewJsonLines(results) ==
    [i \in 1..16 |-> JsonField({})]
    \o Flatten(MapSeq(SelectSeq(ReviewOrder, LAMBDA l : l \in DOMAIN results.languages),
                      LAMBDA l : <<JsonField({}), JsonField({})>>
                                 \o Flatten(MapSeq(results.languages[l].issues, JsonIssue))
                                 \o <<Blank, Blank>>))
    \o [i \in 1..8 |-> Blank]

ReviewMainWrite(tree, t) ==
    WriteFile(tree, File(ReviewReportName(t), "json", ReviewJsonLines(run_full_review(tree))))

(* the text of the quality-gate report that matters to a later scan: the
   fallback scan's and the fallback checks' issue texts *)
QualityReportLines(gate_detail) ==
    LET sec == gate_detail["security"].vulnerabilities
        rev == gate_detail["review"].checks
        secLines == Flatten(MapSeq(Severities, LAMBDA sv :
                        Flatten(MapSeq(sec[sv], LAMBDA x :
                            <<Blank, JsonField({}),
                              JsonField(IF x = "Potential password exposure"
                                        THEN {"password"} ELSE {}),
                              Blank>>))))
        issueLine(x) == IF x \in ConfigKeywords THEN TextLine({x, "hardcoded"})
                        ELSE IF x = "High TODO count" THEN TextLine({"TODO", ":"})
                        ELSE TextLine({"text"})
        revLines == Flatten(MapSeq(
                        SelectSeq(<<"documentation", "naming", "structure", "best_practices">>,
                                  LAMBDA c : c \in DOMAIN rev),
                        LAMBDA c : MapSeq(rev[c].issues, issueLine)))
    IN  <<Blank, JsonField({}), JsonField({})>> \o secLines \o revLines
        \o <<JsonField({}), JsonField({}), Blank>>

----------------------------------------------------------------------------
(* Project trees the model explores *)

MaxFiles == 2
MaxClock == 2
MaxRuns == 2

SudoLine == L2("sudo ", "sudo")
PasswordLine == L3("password=<q>", "password", "=")
SecretLine == L3("secret=<q>", "secret", "=")

FileMenu == {
    File("wipe.sh", "sh", <<L1("rm -rf /"), Blank>>),
    File("purge.sh", "sh", <<L1("rm -rf /") @@ L1("chmod 777") @@ SudoLine, PasswordLine>>),
    File("setup.sh", "sh", <<Blank, SudoLine, L1("rm -rf /")>>),
    File("app.py", "py", <<L1("eval("), SecretLine, L1("../")>>),
    File("util.py", "py", <<Blank, L1("os.system(") @@ SecretLine>>),
    [File("blob.py", "py", <<L1("eval(")>>) EXCEPT !.readable = FALSE],
    [File("raw.sh", "sh", <<L1("rm -rf /")>>)
     EXCEPT !.readable = FALSE, !.worldWritable = TRUE],
    [File("bad.py", "py", <<L1("print("), L1("TODO") @@ L1("eval(")>>)
     EXCEPT !.syntaxOk = FALSE],
    File("mixed.py", "py", <<SecretLine @@ L1("execute(<q>%") @@ L1("../"), L1("code"),
                              L1("cursor.execute(f<q>") @@ L1("..\\")>>),
    File("site.yml", "yml", <<L2("key", ":"), L1(":"), L1("token")>>),
    [File("data.json", "json", <<Blank>>) EXCEPT !.worldWritable = TRUE, !.large = TRUE] }

RECURSIVE TreesOf(_)
TreesOf(n) ==
    IF n = 0 THEN {<<>>}
    ELSE LET shorter == TreesOf(n - 1)
         IN  shorter \cup
             {Append(t, f) : t \in {u \in shorter : Len(u) = n - 1},
                             f \in FileMenu}

NoDuplicates(t) == \A i, j \in 1..Len(t) : i # j => t[i].name # t[j].name
Trees == {t \in TreesOf(MaxFiles) : NoDuplicates(t)}

InDir(f, d) == [f EXCEPT !.dir = d]

(* a 120-line function with 15 branch keywords, one per line *)
BigPy ==
    [File("big.py", "py", [i \in 1..120 |-> IF i \in 2..16 THEN L1("if ") ELSE L1("code")])
     EXCEPT !.defs = <<Def("def", 1, 120, 119, 0, FALSE)>>]

DocumentedPy ==
    [File("scripts/tool.py", "py", <<L1("docstring quotes"), L1("def "), L1("code")>>)
     EXCEPT !.defs = <<Def("def", 2, 3, 1, 0, TRUE)>>, !.dir = "scripts"]

BrokenPy == [File("broken.py", "py", <<L1("code")>>) EXCEPT !.syntaxOk = FALSE]
UnreadablePy == [File("blob.py", "py", <<L1("eval(")>>) EXCEPT !.readable = FALSE]
WipeSh == File("wipe.sh", "sh", <<L1("rm -rf /"), L1("code")>>)
SetupSh == File("setup.sh", "sh", <<L1("set -e"), SudoLine, PasswordLine>>)
LongSh == File("long.sh", "sh", [i \in 1..101 |-> L1("code")])
(* a script of exactly 100 lines of text, the last one ended by a newline *)
EdgeSh == File("edge.sh", "sh", [i \in 1..101 |-> IF i = 101 THEN Blank ELSE L1("code")])
SiteYml == File("site.yml", "yml", <<L2("key", ":"), L1(":")>>)
Readme == File("README.md", "md", <<L1("text")>>)

Healthy ==
    <<Readme, DocumentedPy,
      InDir(File("vendor/lib.sh", "sh", <<L1("set -e")>>), "vendor"),
      InDir(File("tests/notes.txt", "txt", <<L1("text")>>), "tests"),
      InDir(File("docs/guide.md", "md", <<L1("text")>>), "docs")>>

(* the project trees the orchestrator is run on *)
GateTrees == {
    <<>>,
    Healthy,
    SubSeq(Healthy, 2, 5),
    Append(Healthy, WipeSh),
    Append(Healthy, BigPy),
    <<WipeSh>>,
    <<BigPy>>,
    <<BrokenPy, SetupSh>>,
    <<UnreadablePy>>,
    <<SiteYml, LongSh>>,
    <<EdgeSh>> }

(* Hosts: every host that differs in one tool from a host with every tool
   working (FullHost), and the hosts with no tool but possibly bandit (BareHost) *)
Flake8s == {NotOnPath, ModuleMissing, Clean, Tool(TRUE, 1, 1, 0), Tool(TRUE, 1, 0, 11),
            Tool(TRUE, 1, 0, 10), Tool(TRUE, 1, 1, 11)}
Shellchecks == {NotOnPath, Clean, Tool(TRUE, 1, 0, 1)}
Radons == {Radon(FALSE, 0, FALSE), Radon(TRUE, 1, FALSE), Radon(TRUE, 0, FALSE),
           Radon(TRUE, 0, TRUE)}
Scripts == {Script(FALSE, FALSE, 0, FALSE), Script(TRUE, FALSE, 0, FALSE),
            Script(TRUE, TRUE, 1, FALSE), Script(TRUE, TRUE, 0, FALSE),
            Script(TRUE, TRUE, 0, TRUE)}
Bandits == {Bandit(FALSE, 0, FALSE, <<>>), Bandit(TRUE, 1, FALSE, <<>>),
            Bandit(TRUE, 0, FALSE, <<>>), Bandit(TRUE, 0, TRUE, <<"MEDIUM", "UNDEFINED">>),
            Bandit(TRUE, 0, TRUE, <<"MEDIUM", "LOW", "MEDIUM", "MEDIUM", "MEDIUM", "MEDIUM">>),
            Bandit(TRUE, 0, TRUE, <<"MEDIUM", "MEDIUM", "MEDIUM", "MEDIUM", "MEDIUM", "MEDIUM">>)}

FullHost ==
    [flake8 |-> Clean, shellcheck |-> Clean, pyyaml |-> TRUE, radon |-> Radon(TRUE, 0, FALSE),
     scanner |-> Script(TRUE, TRUE, 0, TRUE), bandit |-> Bandit(TRUE, 0, TRUE, <<>>),
     reviewer |-> Script(TRUE, TRUE, 0, TRUE)]

BareHost ==
    [flake8 |-> ModuleMissing, shellcheck |-> NotOnPath, pyyaml |-> FALSE,
     radon |-> Radon(TRUE, 1, FALSE), scanner |-> Script(FALSE, FALSE, 0, FALSE),
     bandit |-> Bandit(TRUE, 1, FALSE, <<>>), reviewer |-> Script(FALSE, FALSE, 0, FALSE)]

Variants(h) ==
    {h}
    \cup {[h EXCEPT !.flake8 = x] : x \in Flake8s}
    \cup {[h EXCEPT !.shellcheck = x] : x \in Shellchecks}
    \cup {[h EXCEPT !.pyyaml = x] : x \in BOOLEAN}
    \cup {[h EXCEPT !.radon = x] : x \in Radons}
    \cup {[h EXCEPT !.scanner = x] : x \in Scripts}
    \cup {[h EXCEPT !.bandit = x] : x \in Bandits \cup {Bandit(TRUE, 0, TRUE, <<>>)}}
    \cup {[h EXCEPT !.reviewer = x] : x \in Scripts}

Hosts == Variants(FullHost) \cup {[BareHost EXCEPT !.bandit = x] : x \in Bandits}

GateNames == {"linting", "complexity", "security", "review"}
Statuses == {"passed", "warning", "failed", "unknown"}
NoSummary == [total_gates |-> 0, passed_gates |-> 0, warning_gates |-> 0,
              failed_gates |-> 0, critical_issues |-> <<>>]
NoDetail == [g \in {} |-> 0]
NoGates == [g \in {} |-> "unknown"]

(* no baselines file yet: _load_baselines returns {} *)
NoBaselines == [k \in {} |-> 0]

(* the variables an entry point does not use keep these values *)
Idle ==
    /\ gates = NoGates
    /\ detail = NoDetail
    /\ overall = "unknown"
    /\ summary = NoSummary
    /\ timestamp = 0
    /\ reports = [t \in {} |-> 0]
    /\ exitCode = -1
    /\ baselines = NoBaselines

----------------------------------------------------------------------------
(* SpecScan: the SecurityScanner entry point run repeatedly on one tree *)

InitScan ==
    /\ fs \in Trees
    /\ host = FullHost
    /\ clock = 0
    /\ pc = "scanner"
    /\ runs = 0
    /\ out = None
    /\ prev = None
    /\ Idle

(* python scan_security.py: SecurityScanner(project_root).scan_all_files(),
   print_report, then the report is written under the project root *)
ScanMain ==
    /\ pc = "scanner"
    /\ runs < MaxRuns
    /\ out' = Some(scan_all_files(fs))
    /\ prev' = out
    /\ fs' = SecurityMainWrite(fs, clock)
    /\ runs' = runs + 1
    /\ UNCHANGED <<host, clock, pc, gates, detail, overall, summary, timestamp, reports,
                   exitCode, baselines>>

(* a second of wall-clock time passes; a run of the gates is taken to last
   less than a second, so the clock moves between runs *)
Tick ==
    /\ clock < MaxClock
    /\ pc \in {"scanner", "reviewer", "analyzer", "idle", "exited", "crashed"}
    /\ clock' = clock + 1
    /\ UNCHANGED <<fs, host, pc, gates, detail, overall, summary, timestamp, reports, runs,
                   exitCode, out, prev, baselines>>

NextScan == ScanMain \/ Tick

SpecScan == InitScan /\ [][NextScan]_vars

----------------------------------------------------------------------------
(* Spec: QualityGateManager's entry point, run repeatedly on one host *)

Init ==
    /\ fs \in GateTrees
    /\ host \in Hosts
    /\ clock = 0
    /\ pc = "idle"
    /\ runs = 0
    /\ out = None
    /\ prev = None
    /\ Idle

(* main() up to the first gate: results = {"timestamp": time.time(), "gates": {},
   "overall_status": "unknown", "summary": {}} *)
Start ==
    /\ pc \in {"idle", "exited", "crashed"}
    /\ runs < MaxRuns
    /\ pc' = "linting"
    /\ timestamp' = clock
    /\ gates' = NoGates
    /\ detail' = NoDetail
    /\ overall' = "unknown"
    /\ summary' = NoSummary
    /\ exitCode' = -1
    /\ runs' = runs + 1
    /\ UNCHANGED <<fs, host, clock, reports, out, prev, baselines>>

(* one gate has returned its result and results["gates"][g] is assigned, or it
   raised and the exception leaves run_all_quality_gates and main *)
GateDone(g, result, raised, next) ==
    IF raised
    THEN /\ pc' = "crashed"
         /\ UNCHANGED <<detail, gates>>
    ELSE /\ detail' = (g :> result) @@ detail
         /\ gates' = (g :> result.status) @@ gates
         /\ pc' = next

(* results["gates"]["linting"] = self.run_linting_checks() *)
Linting ==
    /\ pc = "linting"
    /\ LET result == run_linting_checks(fs, host.flake8, host.shellcheck, host.pyyaml)
       IN  GateDone("linting", result, result.raised, "complexity")
    /\ UNCHANGED <<fs, host, clock, overall, summary, timestamp, reports, runs, exitCode,
                   out, prev, baselines>>

(* results["gates"]["complexity"] = self.run_complexity_analysis() *)
Complexity ==
    /\ pc = "complexity"
    /\ LET result == run_complexity_analysis(fs, host.radon)
       IN  GateDone("complexity", result, result.raised, "security")
    /\ UNCHANGED <<fs, host, clock, overall, summary, timestamp, reports, runs, exitCode,
                   out, prev, baselines>>

(* results["gates"]["security"] = self.run_security_scanning(); a scanner
   subprocess that exits 0 has written its report into the tree *)
Security ==
    /\ pc = "security"
    /\ GateDone("security", run_security_scanning(fs, host.scanner, host.bandit),
                FALSE, "review")
    /\ fs' = IF ScriptSucceeded(host.scanner) THEN SecurityMainWrite(fs, clock) ELSE fs
    /\ out' = IF ScriptSucceeded(host.scanner) THEN Some(scan_all_files(fs)) ELSE None
    /\ UNCHANGED <<host, clock, overall, summary, timestamp, reports, runs, exitCode, prev,
                   baselines>>

(* results["gates"]["review"] = self.run_code_review_checks(), then the tail
   of run_all_quality_gates: overall status, summary, _save_results, return *)
Review ==
    /\ pc = "review"
    /\ GateDone("review", run_code_review_checks(fs, host.reviewer), FALSE, "returned")
    /\ overall' = _calculate_overall_status(gates')
    /\ summary' = _generate_summary(gates')
    /\ reports' = _save_results(reports, [timestamp |-> timestamp,
                                          gates |-> gates',
                                          detail |-> detail',
                                          overall_status |-> overall',
                                          summary |-> summary'])
    /\ fs' = WriteFile(IF ScriptSucceeded(host.reviewer) THEN ReviewMainWrite(fs, clock)
                       ELSE fs,
                       File(ReportName(timestamp), "json", QualityReportLines(detail')))
    /\ UNCHANGED <<host, clock, timestamp, runs, exitCode, out, prev, baselines>>

(* main() after run_all_quality_gates returned: print, then sys.exit *)
Exit ==
    /\ pc = "returned"
    /\ exitCode' = ExitCodeOf(overall)
    /\ pc' = "exited"
    /\ UNCHANGED <<fs, host, clock, gates, detail, overall, summary, timestamp, reports,
                   runs, out, prev, baselines>>

Next == Start \/ Linting \/ Complexity \/ Security \/ Review \/ Exit \/ Tick

Spec == Init /\ [][Next]_vars

----------------------------------------------------------------------------
(* SpecStatus: _calculate_overall_status applied to every assignment of the
   four gate statuses *)

InitStatus ==
    /\ fs = <<>>
    /\ host = FullHost
    /\ clock = 0
    /\ pc = "status"
    /\ gates \in [GateNames -> Statuses]
    /\ detail = NoDetail
    /\ overall = "unknown"
    /\ summary = NoSummary
    /\ timestamp = 0
    /\ reports = [t \in {} |-> 0]
    /\ runs = 0
    /\ exitCode = -1
    /\ out = None
    /\ prev = None
    /\ baselines = NoBaselines

(* results["overall_status"] = self._calculate_overall_status(results["gates"]) *)
CalculateOverallStatus ==
    /\ pc = "status"
    /\ overall' = _calculate_overall_status(gates)
    /\ summary' = _generate_summary(gates)
    /\ pc' = "statusDone"
    /\ UNCHANGED <<fs, host, clock, gates, detail, timestamp, reports, runs, exitCode, out,
                   prev, baselines>>

NextStatus == CalculateOverallStatus

SpecStatus == InitStatus /\ [][NextStatus]_vars

AnyGate(st) == \E g \in GateNames : gates[g] = st

(* C1: for every assignment of the four gate statuses over {passed, warning,
   failed, unknown}, the overall status is failed if any gate is failed;
   otherwise warning if any gate is warning; otherwise passed if all gates are
   passed; otherwise unknown. *)
C1_OverallStatusPrecedence ==
    pc = "statusDone" =>
        /\ AnyGate("failed") => overall = "failed"
        /\ ~AnyGate("failed") /\ AnyGate("warning") => overall = "warning"
        /\ (\A g \in GateNames : gates[g] = "passed") => overall = "passed"
        /\ ~AnyGate("failed") /\ ~AnyGate("warning") /\ AnyGate("unknown")
               => overall = "unknown"

(* a failed gate together with a warning and an unknown one was evaluated *)
C1_Witness ==
    /\ pc = "statusDone"
    /\ gates["linting"] = "warning"
    /\ gates["complexity"] = "unknown"
    /\ gates["security"] = "failed"
    /\ overall = "failed"

----------------------------------------------------------------------------
(* SpecReview: the CodeReviewAutomator entry point run repeatedly on one tree *)

(* a function declared with async def and no docstring *)
AsyncPy ==
    [File("aio.py", "py", <<L1("code"), L1("code")>>)
     EXCEPT !.defs = <<Def("async", 1, 2, 1, 0, FALSE)>>]
(* a class and a function, the class without a docstring *)
ClassPy ==
    [File("model.py", "py", <<L1("code"), L1("code"), L1("docstring quotes")>>)
     EXCEPT !.defs = <<Def("class", 1, 3, 1, 0, FALSE), Def("def", 2, 3, 1, 1, TRUE)>>]
(* the same class in a file that does not parse *)
TornClassPy == [ClassPy EXCEPT !.name = "draft.py", !.syntaxOk = FALSE]
(* a file under a directory named README.d *)
ReadmeDirNote == InDir(File("README.d/notes.txt", "txt", <<L1("text")>>), "README.d")
NestedReadme == InDir(File("docs/README.txt", "txt", <<L1("text")>>), "docs")

(* projects with and without a README, with and without undocumented defs *)
ReviewTrees == {
    <<Readme>>,
    <<NestedReadme, DocumentedPy>>,
    <<Readme, ClassPy>>,
    <<DocumentedPy>>,
    <<ClassPy, DocumentedPy>>,
    <<Readme, AsyncPy>>,
    <<Readme, TornClassPy>>,
    <<Readme, UnreadablePy, DocumentedPy>>,
    <<ReadmeDirNote>>,
    <<ReadmeDirNote, ClassPy>>,
    <<WipeSh, SiteYml>> }

InitReview ==
    /\ fs \in Trees \cup ReviewTrees
    /\ host = FullHost
    /\ clock = 0
    /\ pc = "reviewer"
    /\ runs = 0
    /\ out = None
    /\ prev = None
    /\ Idle

(* python automate_review.py: CodeReviewAutomator(project_root).run_full_review(),
   print_report, then the report is written under the project root *)
ReviewMain ==
    /\ pc = "reviewer"
    /\ runs < MaxRuns
    /\ out' = Some(run_full_review(fs))
    /\ prev' = out
    /\ fs' = ReviewMainWrite(fs, clock)
    /\ runs' = runs + 1
    /\ UNCHANGED <<host, clock, pc, gates, detail, overall, summary, timestamp, reports,
                   exitCode, baselines>>

NextReview == ReviewMain \/ Tick

SpecReview == InitReview /\ [][NextReview]_vars

----------------------------------------------------------------------------
(* Properties of the orchestrator *)

(* C2: for any combination of external-tool outcomes, run_all_quality_gates
   never terminates with an unhandled exception: all four gates resolve and
   the aggregated report is persisted. *)
C2_NoUnhandledException ==
    /\ pc # "crashed"
    /\ pc \in {"returned", "exited"} =>
           DOMAIN gates = GateNames /\ timestamp \in DOMAIN reports

(* C3: main exits with code 0 when the overall status is passed or warning and
   with code 1 when it is failed, and only after the report of the run has
   been persisted. *)
C3_ExitCodeAfterReport ==
    pc = "exited" =>
        /\ overall \in {"passed", "warning"} => exitCode = 0
        /\ overall = "failed" => exitCode = 1
        /\ timestamp \in DOMAIN reports
        /\ reports[timestamp].gates = gates
        /\ reports[timestamp].overall_status = overall

(* a run with a warning and no failure has exited with code 0 *)
C3_Witness ==
    /\ pc = "exited"
    /\ overall = "warning"
    /\ exitCode = 0
    /\ timestamp \in DOMAIN reports

RmRfFirstLine(f) ==
    f.ext = "sh" /\ f.readable /\ Len(f.lines) > 0 /\ Contains(f.lines[1], "rm -rf /")

(* C4: if a shell script has a first line containing 'rm -rf /', the scanner
   emits exactly one finding for that line, of severity critical, and the
   security gate computed by run_security_scanning has status failed. *)
C4_RootDeleteFailsSecurityGate ==
    "security" \in DOMAIN gates =>
        \A i \in 1..Len(fs) :
            RmRfFirstLine(fs[i]) =>
                /\ gates["security"] = "failed"
                /\ IsSome(out) =>
                       LET hits == SelectSeq(Findings(out[1]),
                                             LAMBDA v : v.file = fs[i].name /\ v.line = 1)
                       IN  Len(hits) = 1 /\ hits[1].severity = "critical"

(* the only Python file of the tree holds one function of 120 lines with 15
   lines that carry a branch keyword *)
OneBigFunction(tree) ==
    LET py == Glob(tree, "py")
    IN  /\ Len(py) = 1
        /\ Len(py[1].defs) = 1
        /\ py[1].defs[1].end_line - py[1].defs[1].line + 1 = 120
        /\ CountIf(SubSeq(py[1].lines, py[1].defs[1].line, py[1].defs[1].end_line),
                   LAMBDA l : ContainsAny(l, BranchKeywords)) = 15

(* C5: for a project whose only Python file contains one 120-line function
   with 15 branch keywords, ComplexityAnalyzer reports the function in both
   complex_functions (score > 10) and long_functions (lines > 50), and the
   complexity gate of the orchestrator has status failed. *)
C5_BigFunctionFailsComplexityGate ==
    "complexity" \in DOMAIN gates /\ OneBigFunction(fs) =>
        LET report == analyze_python_files(fs)[1]
        IN  /\ Len(report.complex_functions) = 1
            /\ report.complex_functions[1].complexity > 10
            /\ Len(report.long_functions) = 1
            /\ report.long_functions[1].lines > 50
            /\ gates["complexity"] = "failed"

(* C6: when the lint tool of a language is not installed on the host, the
   linting gate runs the syntax-only fallback for that language, which counts
   the files with invalid syntax; if every file has valid syntax the gate
   reports zero errors and status passed. *)
C6_LintFallbackWhenToolMissing ==
    "linting" \in DOMAIN gates =>
        LET lint == detail["linting"]
            py == "python" \in DOMAIN lint.languages /\ host.flake8 \in {NotOnPath, ModuleMissing}
            sh == "shell" \in DOMAIN lint.languages /\ host.shellcheck = NotOnPath
            invalid(ext) == CountIf(Glob(fs, ext), LAMBDA f : ~f.syntaxOk)
        IN  /\ py => /\ lint.languages["python"].fallback
                     /\ lint.languages["python"].errors = invalid("py")
            /\ sh => /\ lint.languages["shell"].fallback
                     /\ lint.languages["shell"].errors = invalid("sh")
            /\ (py \/ sh) /\ DOMAIN lint.languages \subseteq {"python", "shell"}
               /\ ("python" \in DOMAIN lint.languages => py)
               /\ ("shell" \in DOMAIN lint.languages => sh)
               /\ invalid("py") + invalid("sh") = 0
                   => lint.total_errors = 0 /\ lint.status = "passed"

(* C10: every run of run_all_quality_gates creates a new report file and
   never overwrites the report of an earlier run, also when two runs start
   within the same wall-clock second. *)
C10_ReportWrittenOnce ==
    [][pc = "review" /\ pc' = "returned" =>
           /\ timestamp \notin DOMAIN reports
           /\ \A t \in DOMAIN reports : t \in DOMAIN reports' /\ reports'[t] = reports[t]]_vars

----------------------------------------------------------------------------
(* Properties of the analyzers *)

(* C7: the score in the report returned by run_full_review equals
   max(0, 100 - sum over categories c of min(20, w_c * n_c)), n_c being the
   number of findings of category c emitted by that review and w = (style 1,
   logic 5, security 10, performance 3, maintainability 2). *)
C7_ScoreMatchesFindings ==
    pc = "reviewer" /\ IsSome(out) =>
        LET w == [style |-> 1, logic |-> 5, security |-> 10, performance |-> 3,
                  maintainability |-> 2]
            n(c) == CountIf(ReviewFindings(out[1]), LAMBDA v : v.category = c)
            penalty == SumSeq(MapSeq(Categories, LAMBDA c : Min2(20, w[c] * n(c))))
        IN  out[1].score = Max2(0, 100 - penalty)

(* C8: after scan_all_files every emitted finding is counted in the severity
   buckets of the report: for each severity s the summary's count of s equals
   the number of findings of severity s across all language sections, and the
   total equals the number of findings. *)
C8_SummaryCountsFindings ==
    pc = "scanner" /\ IsSome(out) =>
        /\ \A sv \in SeveritySet :
               out[1].summary[sv] = CountIf(Findings(out[1]), LAMBDA v : v.severity = sv)
        /\ out[1].summary["total"] = Len(Findings(out[1]))

(* the identity of a finding: where it is, how severe, and what it says *)
FindingKey(v) == <<v.file, v.line, v.severity, v.issue>>

(* C9: running the scanner entry point twice in a row on a tree that nobody
   else modifies yields the same finding list both times: the report written
   by the first run does not change the findings of the second. *)
C9_SecondScanFindsTheSame ==
    pc = "scanner" /\ IsSome(prev) /\ IsSome(out) =>
        MapSeq(Findings(out[1]), FindingKey) = MapSeq(Findings(prev[1]), FindingKey)

----------------------------------------------------------------------------
(* Properties of the gates' fallbacks and thresholds *)

(* the reviewer's score could not be obtained: script missing, not spawned,
   non-zero exit, or exit 0 with no readable report *)
NoReviewerScore(reviewer) == ~(ScriptSucceeded(reviewer) /\ reviewer.report)

(* C11: in the review gate, whenever the score cannot be obtained from the
   reviewer subprocess (script missing, non-zero exit, exception while
   invoking it, or exit 0 with a missing or unparsable report), the four
   fallback checks are run and the gate score is derived from them. *)
C11_ReviewFallbackWhenNoScore ==
    "review" \in DOMAIN gates /\ NoReviewerScore(host.reviewer) =>
        /\ DOMAIN detail["review"].checks =
               {"documentation", "naming", "structure", "best_practices"}
        /\ detail["review"].score = ReviewScore(0, detail["review"].checks)

(* the scanner's result could not be obtained: script missing, not spawned,
   non-zero exit, or exit 0 with no readable report *)
NoScannerResult(scanner) == ~(ScriptSucceeded(scanner) /\ scanner.report)

(* C12: in the security gate, whenever the scanner's result cannot be obtained
   (script missing, non-zero exit, exception, or exit 0 with a missing or
   unparsable report), the fallback scan _run_security_scan is executed and
   its vulnerabilities determine the gate status.  The fallback reads only the
   shell files and bandit, which no gate writes. *)
C12_SecurityFallbackWhenNoResult ==
    "security" \in DOMAIN gates /\ NoScannerResult(host.scanner) =>
        /\ detail["security"].vulnerabilities = _run_security_scan(fs, host.bandit)
        /\ gates["security"] = SecurityStatus(_run_security_scan(fs, host.bandit))

(* C13: the security gate status is failed if the critical count or the high
   count is above 0; otherwise warning if the medium count is above 5;
   otherwise passed.  Low and info counts never affect the status, and exactly
   5 medium findings with no critical or high finding yield passed. *)
C13_SecurityStatusThresholds ==
    "security" \in DOMAIN gates =>
        LET n(sv) == Len(detail["security"].vulnerabilities[sv])
        IN  gates["security"] =
                IF n("critical") > 0 \/ n("high") > 0 THEN "failed"
                ELSE IF n("medium") > 5 THEN "warning"
                ELSE "passed"

(* five medium findings and a low one, nothing higher: the gate has passed *)
C13_Witness ==
    /\ "security" \in DOMAIN gates
    /\ Len(detail["security"].vulnerabilities["medium"]) = 5
    /\ Len(detail["security"].vulnerabilities["low"]) > 0
    /\ Len(detail["security"].vulnerabilities["critical"]) = 0
    /\ Len(detail["security"].vulnerabilities["high"]) = 0
    /\ gates["security"] = "passed"

(* the number of lines of text of a file: the newline that ends the last line
   does not start another one *)
TextLines(f) ==
    IF Len(f.lines) > 0 /\ f.lines[Len(f.lines)] = Blank THEN Len(f.lines) - 1
    ELSE Len(f.lines)

(* C14: the complexity gate status is failed if the maximum observed
   complexity is above 10; otherwise warning if the maximum length is above
   100; otherwise passed.  Values exactly equal to 10 and 100 yield passed: a
   tree none of whose scripts has more than 100 lines of text, and where no
   complexity above 10 was observed, has passed. *)
C14_ComplexityStatusThresholds ==
    "complexity" \in DOMAIN gates =>
        LET result == detail["complexity"]
        IN  /\ gates["complexity"] =
                   IF result.max_complexity > 10 THEN "failed"
                   ELSE IF result.max_lines > 100 THEN "warning"
                   ELSE "passed"
            /\ result.max_complexity <= 10
               /\ (\A i \in 1..Len(fs) : fs[i].ext \in {"py", "sh"} => TextLines(fs[i]) <= 100)
                   => gates["complexity"] = "passed"

(* the errors and the warnings of the languages that were linted *)
LintedErrors(lint) ==
    SumSeq(MapSeq(SelectSeq(<<"python", "shell", "yaml">>,
                            LAMBDA l : l \in DOMAIN lint.languages),
                  LAMBDA l : lint.languages[l].errors))
LintedWarnings(lint) ==
    SumSeq(MapSeq(SelectSeq(<<"python", "shell", "yaml">>,
                            LAMBDA l : l \in DOMAIN lint.languages),
                  LAMBDA l : lint.languages[l].warnings))

(* C15: the linting gate status is failed if the error count summed over all
   linted languages is above 0; otherwise warning if the warning count summed
   over them is above 10; otherwise passed.  Failed takes precedence when both
   limits are exceeded, and exactly 10 warnings yield passed. *)
C15_LintingStatusThresholds ==
    "linting" \in DOMAIN gates =>
        gates["linting"] =
            IF LintedErrors(detail["linting"]) > 0 THEN "failed"
            ELSE IF LintedWarnings(detail["linting"]) > 10 THEN "warning"
            ELSE "passed"

(* exactly ten warnings and no error: the gate has passed *)
C15_Witness ==
    /\ "linting" \in DOMAIN gates
    /\ LintedErrors(detail["linting"]) = 0
    /\ LintedWarnings(detail["linting"]) = 10
    /\ gates["linting"] = "passed"

(* C16: the review gate status is passed if the score is at least 90, warning
   if it is at least 75 and below 90, and failed otherwise, for every score
   the gate obtains, from the reviewer's report or from the fallback checks. *)
C16_ReviewStatusThresholds ==
    "review" \in DOMAIN gates =>
        LET score == detail["review"].score
        IN  /\ score >= 90 => gates["review"] = "passed"
            /\ score >= 75 /\ score < 90 => gates["review"] = "warning"
            /\ score < 75 => gates["review"] = "failed"

(* three of the four fallback checks passed: score 75, status warning *)
C16_Witness ==
    /\ "review" \in DOMAIN gates
    /\ DOMAIN detail["review"].checks # {}
    /\ detail["review"].score = 75
    /\ gates["review"] = "warning"

----------------------------------------------------------------------------
(* The score of CodeReviewAutomator as a function of the issues by category *)

(* how far past the cap of a category the issue counts go *)
MaxOverCap == 1

(* issue counts of a category: none, one, and those around the count at which
   the deduction of the category reaches its cap of 20 *)
IssueCounts(c) ==
    {0, 1} \cup ((20 \div Deductions[c]) - 1 .. (20 \div Deductions[c]) + MaxOverCap)

IssuesOf(c, n) == [i \in 1..n |-> Issue("app.py", i, c, "low", "issue")]

(* self.issues with one more finding of category c *)
OneMoreIssue(self_issues, c) ==
    [self_issues EXCEPT ![c] = Append(@, Issue("app.py", Len(@) + 1, c, "low", "issue"))]

InitScore ==
    /\ fs = <<>>
    /\ host = FullHost
    /\ clock = 0
    /\ pc = "score"
    /\ runs = 0
    /\ \E n \in [DOMAIN InitIssues -> 0..(20 + MaxOverCap)] :
           /\ \A c \in DOMAIN InitIssues : n[c] \in IssueCounts(c)
           /\ prev = Some([c \in DOMAIN InitIssues |-> IssuesOf(c, n[c])])
    /\ out = None
    /\ Idle

(* _calculate_score on the issues, and on the issues with one more of category c *)
CalculateScore ==
    /\ pc = "score"
    /\ \E c \in DOMAIN InitIssues :
           out' = Some([category |-> c,
                        score |-> _calculate_score(prev[1]),
                        more |-> _calculate_score(OneMoreIssue(prev[1], c))])
    /\ pc' = "scoreDone"
    /\ UNCHANGED <<fs, host, clock, gates, detail, overall, summary, timestamp, reports,
                   runs, exitCode, prev, baselines>>

NextScore == CalculateScore

SpecScore == InitScore /\ [][NextScore]_vars

(* C17: adding one more finding of any category to an otherwise identical set
   of findings never increases the CodeReviewAutomator score, and the score
   always stays within 0..100. *)
C17_ScoreMonotoneAndBounded ==
    pc = "scoreDone" =>
        /\ out[1].more <= out[1].score
        /\ out[1].score \in 0..100
        /\ out[1].more \in 0..100

(* one more finding of a category below its cap has lowered the score *)
C17_Witness ==
    /\ pc = "scoreDone"
    /\ out[1].more < out[1].score
    /\ out[1].more > 0

----------------------------------------------------------------------------
(* Properties of the line checks of the scanner *)

(* the checks of a Python line in the order they are made: whether the line
   matches, and the issue reported if it is the first that does *)
PythonCheckOrder(line) == <<
    <<Contains(line, "eval("), "Use of eval() function">>,
    <<Contains(line, "exec("), "Use of exec() function">>,
    <<Contains(line, "os.system("), "Use of os.system()">>,
    <<Contains(line, "subprocess.call("), "Use of subprocess.call()">>,
    <<Contains(line, "pickle.load("), "Use of pickle.load()">>,
    <<Contains(line, "yaml.load("), "Unsafe YAML loading">>,
    <<Contains(line, "input("), "Use of input() in Python 2 style">>,
    <<ContainsAny(line, {"password=<q>", "secret=<q>", "key=<q>", "token=<q>"}),
      "Potential hardcoded secret">>,
    <<ContainsAny(line, {"execute(<q>%", "cursor.execute(f<q>", "<q>+<q>execute"}),
      "Potential SQL injection vulnerability">>,
    <<ContainsAny(line, {"../", "..\\"}), "Potential path traversal vulnerability">> >>

ShellCheckOrder(line) == <<
    <<Contains(line, "rm -rf /"), "Dangerous rm command">>,
    <<Contains(line, "chmod 777"), "Overly permissive permissions">>,
    <<Contains(line, "curl | bash"), "Piping curl to bash">>,
    <<Contains(line, "wget | bash"), "Piping wget to bash">>,
    <<Contains(line, "sudo "), "Use of sudo">>,
    <<Contains(line, "$") /\ ContainsAny(line, {"eval", "source"}),
      "Potential command injection via variable">>,
    <<ContainsAny(line, {"password=<q>", "passwd=<q>"}), "Potential hardcoded password">> >>

(* the issue of the first check that matches *)
FirstIssue(order) ==
    LET hits == {i \in 1..Len(order) : order[i][1]}
    IN  IF hits = {} THEN None
        ELSE Some(order[CHOOSE i \in hits : \A j \in hits : i <= j][2])

(* the findings of a scan for line k of file f *)
FindingsAt(results, f, k) ==
    SelectSeq(Findings(results), LAMBDA v : v.file = f.name /\ v.line = k)

(* C18: for every scanned Python or shell line the line check emits at most
   one finding; when several patterns match it is the finding of the first
   matching pattern in the fixed check order; a line matching no pattern
   yields no finding. *)
C18_OneFindingPerLineFirstMatch ==
    pc = "scanner" /\ IsSome(out) =>
        \A i \in 1..Len(fs) :
            fs[i].readable /\ fs[i].ext \in {"py", "sh"} =>
                \A k \in 1..Len(fs[i].lines) :
                    LET hits == FindingsAt(out[1], fs[i], k)
                        expected == FirstIssue(IF fs[i].ext = "py"
                                               THEN PythonCheckOrder(fs[i].lines[k])
                                               ELSE ShellCheckOrder(fs[i].lines[k]))
                    IN  IF IsSome(expected)
                        THEN Len(hits) = 1 /\ hits[1].issue = expected[1]
                        ELSE Len(hits) = 0

(* a scanned line matches more than one check and has exactly one finding *)
C18_Witness ==
    /\ pc = "scanner" /\ IsSome(out)
    /\ \E i \in 1..Len(fs) :
           /\ fs[i].readable /\ fs[i].ext \in {"py", "sh"}
           /\ \E k \in 1..Len(fs[i].lines) :
                  LET order == IF fs[i].ext = "py" THEN PythonCheckOrder(fs[i].lines[k])
                               ELSE ShellCheckOrder(fs[i].lines[k])
                  IN  /\ Cardinality({j \in 1..Len(order) : order[j][1]}) > 1
                      /\ Len(FindingsAt(out[1], fs[i], k)) = 1

----------------------------------------------------------------------------
(* The complexity analyzer run on its own (python analyze_complexity.py) *)

CodeLines(n) == [i \in 1..n |-> L1("code")]

(* a Python file that is one function of `span` lines, `branches` of them
   starting an if, the last line ended by a newline *)
PyFunction(name, span, branches) ==
    [File(name, "py", [i \in 1..(span + 1) |->
                          IF i = span + 1 THEN Blank
                          ELSE IF i \in 2..(branches + 1) THEN L1("if ")
                          ELSE L1("code")])
     EXCEPT !.defs = <<Def("def", 1, span, span - 1, 0, FALSE)>>]

(* a script with one function of `span` lines that starts at line `at`: the
   line "name() {", the body, the line "}" *)
ShFunction(name, span, at) ==
    [File(name, "sh", [i \in 1..(at + span) |->
                          IF i = at + span THEN Blank
                          ELSE IF i = at
                          THEN ("^name() {" :> 1) @@ ("() {" :> 1) @@ ("{" :> 1)
                          ELSE IF i = at + span - 1 THEN L1("}")
                          ELSE L1("code")])
     EXCEPT !.defs = <<Def("def", at, at + span - 1, span - 2, 0, FALSE)>>]

PyAtLimits == PyFunction("at.py", 50, 9)
PyOverLimits == PyFunction("over.py", 51, 10)
(* exactly 300 lines of text, with and without the newline after the last *)
Py300 == File("full.py", "py", Append(CodeLines(300), Blank))
Py300NoEol == File("bare.py", "py", CodeLines(300))
Py301 == File("long.py", "py", Append(CodeLines(301), Blank))
Sh300 == File("full.sh", "sh", Append(CodeLines(300), Blank))
ShSpan52 == ShFunction("wide.sh", 52, 1)
ShSpan51 == ShFunction("snug.sh", 51, 2)
(* name() { ...; } on the first line of the script *)
ShOneLine ==
    [File("one.sh", "sh",
          <<("^name() {" :> 1) @@ ("() {" :> 1) @@ ("{" :> 1) @@ ("}" :> 1), Blank>>)
     EXCEPT !.defs = <<Def("def", 1, 1, 1, 0, FALSE)>>]
(* a function whose second line holds a comprehension, `for ` and `if `, and
   whose third holds a condition joined by two ` and ` *)
PyComprehension ==
    [File("comp.py", "py", <<L1("code"), L2("for ", "if "),
                             ("if " :> 1) @@ (" and " :> 2), L1("except "), Blank>>)
     EXCEPT !.defs = <<Def("def", 1, 4, 3, 0, FALSE)>>]

(* files that would be flagged if they could be read and parsed *)
TornPy == [PyFunction("torn.py", 51, 10) EXCEPT !.syntaxOk = FALSE]
UnreadableSh == [ShFunction("raw.sh", 52, 1) EXCEPT !.readable = FALSE]

AnalyzerTrees == {
    <<>>,
    <<TornPy, PyOverLimits, ShSpan52>>,
    <<UnreadableSh, ShSpan52, Py301>>,
    <<PyAtLimits>>,
    <<PyOverLimits>>,
    <<Py300>>,
    <<Py300NoEol>>,
    <<Py301>>,
    <<Sh300>>,
    <<ShSpan52>>,
    <<ShSpan51, ShOneLine>>,
    <<PyComprehension>>,
    <<BigPy, UnreadablePy>>,
    <<PyAtLimits, ShSpan51>>,
    <<PyOverLimits, ShSpan52, Py301>> }

InitAnalyze ==
    /\ fs \in AnalyzerTrees
    /\ host = FullHost
    /\ clock = 0
    /\ pc = "analyzer"
    /\ runs = 0
    /\ out = None
    /\ prev = None
    /\ Idle

(* python analyze_complexity.py: ComplexityAnalyzer(project_root)
   .analyze_all_files(), print_report, then the report is written under the
   project root *)
AnalyzeMain ==
    /\ pc = "analyzer"
    /\ runs < MaxRuns
    /\ out' = Some(analyze_all_files(fs))
    /\ prev' = out
    /\ fs' = ComplexityMainWrite(fs, clock)
    /\ runs' = runs + 1
    /\ UNCHANGED <<host, clock, pc, gates, detail, overall, summary, timestamp, reports,
                   exitCode, baselines>>

NextAnalyze == AnalyzeMain \/ Tick

SpecAnalyze == InitAnalyze /\ [][NextAnalyze]_vars

(* the file of the tree an entry of a report names *)
FileNamed(tree, name) == tree[CHOOSE i \in 1..Len(tree) : tree[i].name = name]

(* the lines a function of a file spans, from its first line to its last *)
SpanAt(f, line) ==
    LET d == f.defs[CHOOSE i \in 1..Len(f.defs) : f.defs[i].line = line]
    IN  d.end_line - d.line + 1

(* C19: the analyzer reports a function as complex only if its score is
   strictly above 10, as long only if its line span is strictly above 50, and
   a file as long only if it has strictly more than 300 lines; functions and
   files at exactly the threshold or below produce no entry. *)
C19_AnalyzerFlagsOnlyAboveThreshold ==
    pc = "analyzer" /\ IsSome(out) =>
        \A l \in DOMAIN out[1].languages :
            LET r == out[1].languages[l]
            IN  /\ \A i \in 1..Len(r.complex_functions) :
                       r.complex_functions[i].complexity > 10
                /\ \A i \in 1..Len(r.long_functions) :
                       SpanAt(FileNamed(fs, r.long_functions[i].file),
                              r.long_functions[i].line) > 50
                /\ \A i \in 1..Len(r.long_files) :
                       TextLines(FileNamed(fs, r.long_files[i].file)) > 300

(* the occurrences of branching keywords and operators in a line, and of
   exception-handler clauses *)
BranchOccurrences(line) ==
    SumSeq(MapSeq(<<"if ", "elif ", "for ", "while ", "case ", "&&", "||", " and ", " or ",
                    "except ">>,
                  LAMBDA kw : Count(line, kw)))

(* C20: the cyclomatic score computed for a function's lines equals 1 plus the
   number of occurrences of branching keywords and operators in those lines
   plus the number of exception-handler clauses, so that a single line holding
   two branching keywords contributes 2. *)
C20_ScoreCountsOccurrences ==
    pc = "analyzer" /\ IsSome(out) /\ "python" \in DOMAIN out[1].languages =>
        LET files == out[1].languages["python"].files
        IN  \A i \in 1..Len(files) :
                \A j \in 1..Len(files[i].functions) :
                    LET f == FileNamed(fs, files[i].file)
                        fn == files[i].functions[j]
                        function_lines == SubSeq(f.lines, fn.line, fn.line + fn.lines - 1)
                    IN  fn.complexity =
                            1 + SumSeq(MapSeq(function_lines, BranchOccurrences))

----------------------------------------------------------------------------
(* Properties of the analyzers' handling of files they cannot process *)

(* the findings of a review that name a file *)
ReviewFindingsOf(results, name) ==
    SelectSeq(ReviewFindings(results), LAMBDA v : v.file = name)

BrokenPython(f) == f.ext = "py" /\ f.readable /\ ~f.syntaxOk

(* C21: in the reviewer, a Python file with invalid syntax produces exactly
   one finding of category logic and severity high, for the parse error, and
   the review continues: the line checks still run on that file (its TODO and
   print( lines are reported) and the other Python and shell files get the
   findings they get when reviewed without it. *)
C21_SyntaxErrorIsOneFindingAndReviewGoesOn ==
    pc = "reviewer" /\ IsSome(out) =>
        \A i \in 1..Len(fs) :
            BrokenPython(fs[i]) =>
                /\ CountIf(ReviewFindingsOf(out[1], fs[i].name),
                           LAMBDA v : v.category = "logic" /\ v.severity = "high") = 1
                /\ \A k \in 1..Len(fs[i].lines) :
                       /\ Contains(fs[i].lines[k], "TODO") =>
                              \E j \in 1..Len(ReviewFindingsOf(out[1], fs[i].name)) :
                                  LET v == ReviewFindingsOf(out[1], fs[i].name)[j]
                                  IN  v.line = k /\ v.issue = "TODO comment found"
                       /\ Contains(fs[i].lines[k], "print(") =>
                              \E j \in 1..Len(ReviewFindingsOf(out[1], fs[i].name)) :
                                  LET v == ReviewFindingsOf(out[1], fs[i].name)[j]
                                  IN  v.line = k
                                      /\ v.issue = "Print statement in production code"
                /\ \A j \in 1..Len(fs) :
                       j # i /\ fs[j].ext \in {"py", "sh"} =>
                           ReviewFindingsOf(out[1], fs[j].name)
                               = ReviewFindingsOf(run_full_review(<<fs[j]>>), fs[j].name)

(* a broken Python file was reviewed together with a script that has findings *)
C21_Witness ==
    /\ pc = "reviewer" /\ IsSome(out)
    /\ \E i, j \in 1..Len(fs) :
           /\ BrokenPython(fs[i])
           /\ Len(ReviewFindingsOf(out[1], fs[i].name)) > 1
           /\ fs[j].ext = "sh"
           /\ Len(ReviewFindingsOf(out[1], fs[j].name)) > 0

(* the findings of a scan result that name one file *)
ScanFindingsOf(results, name) ==
    SelectSeq(Findings(results), LAMBDA v : v.file = name)

(* the findings the scan of one language recorded for one file *)
SectionFindingsOf(results, language, name) ==
    IF language \in DOMAIN results.languages
    THEN SelectSeq(results.languages[language].vulnerabilities, LAMBDA v : v.file = name)
    ELSE <<>>

LanguageOf(f) == IF f.ext = "py" THEN "python" ELSE "shell"

Unscannable(f) == f.ext \in {"py", "sh"} /\ ~f.readable

(* C22: a Python or shell file that cannot be opened or decoded has exactly
   one finding in the section of its language, of severity info at line 0;
   the only other findings that name it are those of the general scan,
   which reads the file's mode and size and not its content; every other
   Python, shell or YAML file has the findings of a scan of that file alone. *)
C22_UnreadableFileIsOneInfoFindingOfItsLanguage ==
    pc = "scanner" /\ IsSome(out) =>
        \A i \in 1..Len(fs) :
            Unscannable(fs[i]) =>
                LET hits == SectionFindingsOf(out[1], LanguageOf(fs[i]), fs[i].name)
                    all == ScanFindingsOf(out[1], fs[i].name)
                IN  /\ Len(hits) = 1
                    /\ hits[1].severity = "info" /\ hits[1].line = 0
                    /\ \A k \in 1..Len(all) :
                           \/ all[k] = hits[1]
                           \/ all[k].issue \in {"World-writable file", "Very large file"}
                    /\ \A j \in 1..Len(fs) :
                           j # i /\ fs[j].ext \in {"py", "sh", "yml"} =>
                               ScanFindingsOf(out[1], fs[j].name)
                               = ScanFindingsOf(scan_all_files(<<fs[j]>>), fs[j].name)

(* an unreadable script was scanned together with a readable file that has
   findings of its own *)
C22_Witness ==
    /\ pc = "scanner" /\ IsSome(out)
    /\ \E i, j \in 1..Len(fs) :
           /\ Unscannable(fs[i])
           /\ Len(SectionFindingsOf(out[1], LanguageOf(fs[i]), fs[i].name)) = 1
           /\ fs[j].readable /\ fs[j].ext \in {"py", "sh"}
           /\ Len(ScanFindingsOf(out[1], fs[j].name)) > 0

(* C22 as stated: a file that cannot be opened or decoded has exactly one
   finding in the whole scan result, of severity info at line 0. *)
C22_UnreadableFileHasNoOtherFinding ==
    pc = "scanner" /\ IsSome(out) =>
        \A i \in 1..Len(fs) :
            Unscannable(fs[i]) =>
                LET all == ScanFindingsOf(out[1], fs[i].name)
                IN  Len(all) = 1 /\ all[1].severity = "info" /\ all[1].line = 0

(* the entries of one list of every language section that name one file *)
AnalyzerEntriesOf(results, field, name) ==
    [l \in DOMAIN results.languages |->
        SelectSeq(results.languages[l][field], LAMBDA e : e.file = name)]

AnalyzerLists == {"files", "complex_functions", "long_functions", "long_files"}

AnalysisFails(f) ==
    \/ f.ext = "py" /\ ~(f.readable /\ f.syntaxOk)
    \/ f.ext = "sh" /\ ~f.readable

(* C23: a Python or shell file whose read or parse fails has no entry in
   files, complex_functions, long_functions or long_files of any language;
   every other Python and shell file has the entries an analysis of that file
   alone gives it, and the analysis returns a report. *)
C23_FailedFileIsSkippedAndAnalysisGoesOn ==
    pc = "analyzer" /\ IsSome(out) =>
        \A i \in 1..Len(fs) :
            AnalysisFails(fs[i]) =>
                /\ \A field \in AnalyzerLists :
                       \A l \in DOMAIN out[1].languages :
                           AnalyzerEntriesOf(out[1], field, fs[i].name)[l] = <<>>
                /\ \A j \in 1..Len(fs) :
                       fs[j].ext \in {"py", "sh"} /\ ~AnalysisFails(fs[j]) =>
                           LET alone == analyze_all_files(<<fs[j]>>)
                               l == IF fs[j].ext = "py" THEN "python" ELSE "shell"
                           IN  /\ l \in DOMAIN out[1].languages
                               /\ \A field \in AnalyzerLists :
                                      AnalyzerEntriesOf(out[1], field, fs[j].name)[l]
                                      = AnalyzerEntriesOf(alone, field, fs[j].name)[l]

(* a file that fails was analysed ahead of a file of its language and a file
   of the other language, both of which were flagged *)
C23_Witness ==
    /\ pc = "analyzer" /\ IsSome(out)
    /\ Len(fs) >= 3 /\ AnalysisFails(fs[1])
    /\ Len(AnalyzerEntriesOf(out[1], "long_functions", fs[2].name)
               [IF fs[2].ext = "py" THEN "python" ELSE "shell"]) > 0
    /\ fs[3].ext # fs[2].ext /\ fs[3].ext \in {"py", "sh"}
    /\ \E field \in AnalyzerLists \ {"files"} :
           Len(AnalyzerEntriesOf(out[1], field, fs[3].name)
                  [IF fs[3].ext = "py" THEN "python" ELSE "shell"]) > 0

----------------------------------------------------------------------------
(* Properties of the findings' fields *)

CategorySet == {Categories[i] : i \in 1..Len(Categories)}

(* C24: every finding of a security scan carries a severity of the five
   declared and a category of the five declared. *)
C24_FindingsCarrySeverityAndCategory ==
    pc = "scanner" /\ IsSome(out) =>
        \A i \in 1..Len(Findings(out[1])) :
            LET v == Findings(out[1])[i]
            IN  /\ v.severity \in SeveritySet
                /\ "category" \in DOMAIN v
                /\ v.category \in CategorySet

----------------------------------------------------------------------------
(* Properties of the documentation review *)

DocumentationIssues(results) ==
    IF "documentation" \in DOMAIN results.languages
    THEN results.languages["documentation"].issues ELSE <<>>

IssuesNamed(issues, text) == SelectSeq(issues, LAMBDA v : v.issue = text)

(* C25: the documentation review reports 'Missing README file' once when no
   path under the root, file or directory, has a name starting with README,
   and not otherwise; it reports missing docstrings once when a Python file
   that opens and parses holds a def or class without a docstring, async
   defs not counted, and not otherwise; a project without README and without
   Python files has exactly the README finding. *)
C25_DocumentationFindings ==
    pc = "reviewer" /\ IsSome(out) =>
        LET tree == fs
            issues == DocumentationIssues(out[1])
            readme == \E i \in 1..Len(tree) :
                          tree[i].name \in ReadmeNames \/ tree[i].dir \in ReadmeDirs
            bare == \E i \in 1..Len(tree) :
                        /\ tree[i].ext = "py" /\ tree[i].readable /\ tree[i].syntaxOk
                        /\ \E k \in 1..Len(tree[i].defs) :
                               /\ tree[i].defs[k].kind \in {"def", "class"}
                               /\ ~tree[i].defs[k].doc
        IN  /\ Len(IssuesNamed(issues, "Missing README file")) = (IF readme THEN 0 ELSE 1)
            /\ Len(IssuesNamed(issues, "functions/classes missing docstrings"))
               = (IF bare THEN 1 ELSE 0)
            /\ (~readme /\ Len(Glob(tree, "py")) = 0 => Len(issues) = 1)

(* the review of a project without a README whose Python files hold a
   documented function and an undocumented class: both findings, once each *)
C25_Witness ==
    /\ pc = "reviewer" /\ IsSome(out)
    /\ \E i, j \in 1..Len(fs) :
           /\ fs[i].ext = "py" /\ Len(fs[i].defs) > 0 /\ Undocumented(fs[i]) = 0
           /\ fs[j].ext = "py" /\ Undocumented(fs[j]) > 0
    /\ Len(IssuesNamed(DocumentationIssues(out[1]), "Missing README file")) = 1
    /\ Len(IssuesNamed(DocumentationIssues(out[1]),
                       "functions/classes missing docstrings")) = 1
    /\ Len(DocumentationIssues(out[1])) = 2

(* C25 as stated: 'Missing README file' is reported exactly when no file
   named README* exists, and missing docstrings exactly when a parsed
   function or class, async functions included, has no docstring. *)
C25_ReadmeFileAndEveryFunction ==
    pc = "reviewer" /\ IsSome(out) =>
        LET tree == fs
            issues == DocumentationIssues(out[1])
            readme == \E i \in 1..Len(tree) : tree[i].name \in ReadmeNames
            bare == \E i \in 1..Len(tree) :
                        /\ tree[i].ext = "py" /\ tree[i].readable /\ tree[i].syntaxOk
                        /\ \E k \in 1..Len(tree[i].defs) : ~tree[i].defs[k].doc
        IN  /\ Len(IssuesNamed(issues, "Missing README file")) = (IF readme THEN 0 ELSE 1)
            /\ Len(IssuesNamed(issues, "functions/classes missing docstrings"))
               = (IF bare THEN 1 ELSE 0)

----------------------------------------------------------------------------
(* PerformanceTestRunner (tests/performance/test_performance_regression.py) *)

timeout == 30
regression_threshold == 2

MaxDuration == 4
MaxPerfRuns == 3

(* (script_name, path under the project root), with the baseline key
   f"{test_name}_duration" the runner derives for it *)
PerfScript(name, path, key) == [name |-> name, path |-> path, key |-> key]

core_scripts == <<
    PerfScript("config.sh", "vendor/scripts/core/config.sh", "core_config.sh_duration"),
    PerfScript("init.sh", "vendor/scripts/core/init.sh", "core_init.sh_duration"),
    PerfScript("logging.sh", "vendor/scripts/core/logging.sh", "core_logging.sh_duration") >>

utility_scripts == <<
    PerfScript("duplicate-core.sh", "vendor/scripts/utilities/duplicate-core.sh",
               "utility_duplicate-core.sh_duration"),
    PerfScript("sync-core-modules.sh", "vendor/scripts/utilities/sync-core-modules.sh",
               "utility_sync-core-modules.sh_duration"),
    PerfScript("utilities.sh", "vendor/scripts/utilities/utilities.sh",
               "utility_utilities.sh_duration") >>

build_scripts == <<
    PerfScript("build-release.sh", "scripts/build-release.sh",
               "build_build-release.sh_duration"),
    PerfScript("ci-check.sh", "scripts/ci-check.sh", "build_ci-check.sh_duration") >>

(* what subprocess.run of a script does: it is killed at the timeout, or it
   ends after `duration` with a return code *)
TimedOut == [timedOut |-> TRUE, duration |-> timeout, returncode |-> -1]
Ran(duration, returncode) ==
    [timedOut |-> FALSE, duration |-> duration, returncode |-> returncode]

(* a run killed at the timeout reported as a run that took that long *)
TimeoutIsSlowRun(o) ==
    [duration |-> o.duration, returncode |-> o.returncode, success |-> o.returncode = 0]

run_script_performance_test(o) ==
    IF o.timedOut THEN [error |-> "Script timed out", duration |-> timeout]
    ELSE [duration |-> o.duration, returncode |-> o.returncode,
          success |-> o.returncode = 0]

(* a comparison that flags a run at exactly twice the baseline *)
IsRegressionAtThreshold(current_duration, baseline_duration) ==
    current_duration >= baseline_duration * regression_threshold

IsRegression(current_duration, baseline_duration) ==
    current_duration > baseline_duration * regression_threshold

(* test_script_performance: the result, the runner's self.baselines and the
   baselines file after the call; regression_factor is kept as the two terms
   of the quotient *)
test_script_performance(self_baselines, file, baseline_key, o) ==
    LET result == run_script_performance_test(o)
    IN  IF "error" \in DOMAIN result
        THEN [result |-> result, baselines |-> self_baselines, file |-> file]
        ELSE IF baseline_key \in DOMAIN self_baselines
        THEN [result |->
                  IF IsRegression(result.duration, self_baselines[baseline_key])
                  THEN result @@ [regression |-> TRUE,
                                  baseline_duration |-> self_baselines[baseline_key],
                                  regression_factor |->
                                      <<result.duration, self_baselines[baseline_key]>>]
                  ELSE result @@ [regression |-> FALSE],
              baselines |-> self_baselines, file |-> file]
        ELSE LET established == (baseline_key :> result.duration) @@ self_baselines
             IN  [result |-> result @@ [baseline_established |-> TRUE],
                  baselines |-> established, file |-> established]

ScriptExists(tree, path) == \E i \in 1..Len(tree) : tree[i].name = path

NoResults == [n \in {} |-> 0]

(* the loop of a test_*_script_performance method from script i on: st holds
   the runner's baselines, the baselines file and the results so far *)
RECURSIVE TestScripts(_, _, _, _, _)
TestScripts(scripts, i, tree, st, outcomes) ==
    IF i > Len(scripts) THEN st
    ELSE IF ~ScriptExists(tree, scripts[i].path)
    THEN TestScripts(scripts, i + 1, tree, st, outcomes)
    ELSE LET r == test_script_performance(st.baselines, st.file, scripts[i].key,
                                          outcomes[scripts[i].path])
         IN  TestScripts(scripts, i + 1, tree,
                         [baselines |-> r.baselines, file |-> r.file,
                          results |-> (scripts[i].name :> r.result) @@ st.results],
                         outcomes)

(* run_performance_tests: one runner for the core and utility scripts, built
   before they run, and one for the build scripts, built after *)
run_performance_tests(tree, file, outcomes) ==
    LET core_results ==
            TestScripts(core_scripts, 1, tree,
                        [baselines |-> file, file |-> file, results |-> NoResults], outcomes)
        utility_results ==
            TestScripts(utility_scripts, 1, tree,
                        [core_results EXCEPT !.results = NoResults], outcomes)
        build_results ==
            TestScripts(build_scripts, 1, tree,
                        [baselines |-> utility_results.file, file |-> utility_results.file,
                         results |-> NoResults], outcomes)
        all_results == build_results.results @@ utility_results.results
                       @@ core_results.results
        regressions ==
            Cardinality({n \in DOMAIN all_results :
                            "regression" \in DOMAIN all_results[n]
                            /\ all_results[n].regression})
    IN  [results |-> all_results,
         total_tests |-> Cardinality(DOMAIN core_results.results)
                         + Cardinality(DOMAIN utility_results.results)
                         + Cardinality(DOMAIN build_results.results),
         regressions |-> regressions,
         baselines_established |->
             Cardinality({n \in DOMAIN all_results :
                             "baseline_established" \in DOMAIN all_results[n]}),
         file |-> build_results.file,
         status |-> IF regressions > 0 THEN 1 ELSE 0]

----------------------------------------------------------------------------
(* SpecPerf: python test_performance_regression.py run repeatedly on one
   project; host holds what each script did in the last run *)

PerfFile(path) == File(path, "sh", <<L1("code")>>)

PerfTrees == {
    <<>>,
    <<PerfFile("vendor/scripts/core/config.sh")>>,
    <<PerfFile("vendor/scripts/core/config.sh"), PerfFile("scripts/ci-check.sh")>>,
    <<PerfFile("vendor/scripts/utilities/utilities.sh")>> }

(* a script is killed at the timeout, ends with code 0 after any of the
   durations, or fails at once *)
Outcomes == {TimedOut, Ran(1, 1)} \cup {Ran(d, 0) : d \in 1..MaxDuration}

AllPerfScripts == core_scripts \o utility_scripts \o build_scripts

PresentScripts(tree) ==
    {i \in 1..Len(AllPerfScripts) : ScriptExists(tree, AllPerfScripts[i].path)}

InitPerf ==
    /\ fs \in PerfTrees
    /\ host = [p \in {} |-> TimedOut]
    /\ clock = 0
    /\ pc = "perf"
    /\ runs = 0
    /\ out = None
    /\ prev = None
    /\ Idle

(* sys.exit(run_performance_tests()) *)
PerfMain ==
    /\ pc = "perf"
    /\ runs < MaxPerfRuns
    /\ \E outcomes \in [{AllPerfScripts[i].path : i \in PresentScripts(fs)} -> Outcomes] :
           LET r == run_performance_tests(fs, baselines, outcomes)
           IN  /\ host' = outcomes
               /\ out' = Some([k \in DOMAIN r \ {"file", "status"} |-> r[k]])
               /\ baselines' = r.file
               /\ exitCode' = r.status
    /\ runs' = runs + 1
    /\ UNCHANGED <<fs, clock, pc, gates, detail, overall, summary, timestamp, reports, prev>>

NextPerf == PerfMain

SpecPerf == InitPerf /\ [][NextPerf]_vars

----------------------------------------------------------------------------
(* Properties of the performance runner *)

Flagged(result) == "regression" \in DOMAIN result /\ result.regression

(* C26: a script run that is killed at the timeout yields an error result
   that carries no regression mark and no baseline mark, is not counted among
   the regressions, and leaves the stored baseline of its script as it was;
   a run in which every script times out leaves the baselines file
   unchanged and exits with 0. *)
C26_TimeoutIsAnErrorNotARegression ==
    [][LET present == PresentScripts(fs)
           timedOut == {i \in present : host'[AllPerfScripts[i].path].timedOut}
       IN  /\ \A i \in timedOut :
                  LET s == AllPerfScripts[i]
                      r == out'[1].results[s.name]
                  IN  /\ "error" \in DOMAIN r
                      /\ "regression" \notin DOMAIN r
                      /\ "baseline_established" \notin DOMAIN r
                      /\ s.key \in DOMAIN baselines' <=> s.key \in DOMAIN baselines
                      /\ s.key \in DOMAIN baselines => baselines'[s.key] = baselines[s.key]
           /\ out'[1].regressions
              = Cardinality({i \in present \ timedOut :
                                LET s == AllPerfScripts[i]
                                IN  /\ s.key \in DOMAIN baselines
                                    /\ host'[s.path].duration > 2 * baselines[s.key]})
           /\ out'[1].baselines_established
              = Cardinality({i \in present \ timedOut :
                                AllPerfScripts[i].key \notin DOMAIN baselines})
           /\ (timedOut = present => baselines' = baselines /\ exitCode' = 0)]_vars

(* a script with a stored baseline timed out in the last run while another
   script without one timed out as well *)
C26_Witness ==
    /\ pc = "perf" /\ IsSome(out)
    /\ \E i, j \in PresentScripts(fs) :
           /\ host[AllPerfScripts[i].path].timedOut
           /\ AllPerfScripts[i].key \in DOMAIN baselines
           /\ "error" \in DOMAIN out[1].results[AllPerfScripts[i].name]
           /\ host[AllPerfScripts[j].path].timedOut
           /\ AllPerfScripts[j].key \notin DOMAIN baselines
    /\ exitCode = 0

(* C30: over the runs of the performance tests the baseline of a script is
   written by the first run of it that ends without timeout, with that run's
   duration, and by no other run, and it is never changed afterwards; a
   later run that ends without timeout is flagged as a regression exactly
   when its duration is greater than twice the stored baseline. *)
C30_BaselineWrittenOnceAndRegressionAboveTwice ==
    [][\A i \in PresentScripts(fs) :
           LET s == AllPerfScripts[i]
               o == host'[s.path]
               r == out'[1].results[s.name]
           IN  IF s.key \in DOMAIN baselines
               THEN /\ s.key \in DOMAIN baselines'
                    /\ baselines'[s.key] = baselines[s.key]
                    /\ ~o.timedOut =>
                           (Flagged(r) <=> o.duration > 2 * baselines[s.key])
               ELSE /\ ~Flagged(r)
                    /\ s.key \in DOMAIN baselines' <=> ~o.timedOut
                    /\ ~o.timedOut => baselines'[s.key] = o.duration]_vars

(* after three runs one script ran exactly twice as long as its baseline and
   is not flagged, and another ran longer than twice its baseline and is *)
C30_Witness ==
    /\ pc = "perf" /\ IsSome(out) /\ runs = 3
    /\ \E i, j \in PresentScripts(fs) :
           LET a == AllPerfScripts[i]
               b == AllPerfScripts[j]
           IN  /\ a.key \in DOMAIN baselines /\ ~host[a.path].timedOut
               /\ host[a.path].duration = 2 * baselines[a.key]
               /\ ~Flagged(out[1].results[a.name])
               /\ b.key \in DOMAIN baselines /\ ~host[b.path].timedOut
               /\ host[b.path].duration > 2 * baselines[b.key]
               /\ Flagged(out[1].results[b.name])
    /\ exitCode = 1

----------------------------------------------------------------------------
(* Properties of the gate statuses and the summary of a persisted report *)

Decided == {"passed", "warning", "failed"}

(* C27: when run_all_quality_gates has returned, each of the four gates has
   a result whose status is passed, warning or failed, and the overall status
   of the run and of every persisted report is not unknown. *)
C27_GatesDecidedAtReturn ==
    /\ pc \in {"returned", "exited"} =>
           /\ DOMAIN gates = GateNames
           /\ \A g \in GateNames : gates[g] \in Decided /\ detail[g].status = gates[g]
           /\ overall \in Decided
    /\ \A t \in DOMAIN reports :
           /\ reports[t].overall_status \in Decided
           /\ \A g \in GateNames : reports[t].gates[g] \in Decided

(* a run returned with a review gate that obtained no score and gates of
   differing status *)
C27_Witness ==
    /\ pc = "returned"
    /\ detail["review"].score = 0
    /\ Cardinality({gates[g] : g \in GateNames}) > 1
    /\ timestamp \in DOMAIN reports

(* C28: in every persisted report the counts of passed, warning and failed
   gates add up to at most total_gates, and to exactly total_gates when no
   gate is unknown; critical_issues has one entry per failed gate; the
   overall status is failed exactly when a gate failed and passed exactly
   when every gate passed. *)
C28_SummaryAgreesWithGates ==
    \A t \in DOMAIN reports :
        LET r == reports[t]
            s == r.summary
            counted == s.passed_gates + s.warning_gates + s.failed_gates
        IN  /\ counted <= s.total_gates
            /\ (\A g \in DOMAIN r.gates : r.gates[g] \in Decided) => counted = s.total_gates
            /\ s.total_gates = Cardinality(DOMAIN r.gates)
            /\ s.passed_gates = Cardinality({g \in DOMAIN r.gates : r.gates[g] = "passed"})
            /\ s.failed_gates = Cardinality({g \in DOMAIN r.gates : r.gates[g] = "failed"})
            /\ Len(s.critical_issues) = s.failed_gates
            /\ r.overall_status = "failed" <=> s.failed_gates > 0
            /\ r.overall_status = "passed" <=> s.passed_gates = s.total_gates

(* a persisted report with a passed, a warning and a failed gate *)
C28_Witness ==
    \E t \in DOMAIN reports :
        /\ reports[t].summary.passed_gates > 0
        /\ reports[t].summary.warning_gates > 0
        /\ reports[t].summary.failed_gates > 0
        /\ reports[t].overall_status = "failed"

(* C29: when the review gate ran the four fallback checks its score is 100
   times the number of checks whose status is passed, divided by 4; the gate
   is passed exactly when four checks passed, warning exactly when three did,
   and failed otherwise; a check whose status is warning is not counted. *)
C29_FallbackScoreIsShareOfPassedChecks ==
    pc \in {"returned", "exited"} /\ detail["review"].fallback =>
        LET checks == detail["review"].checks
            passed == Cardinality({c \in DOMAIN checks : checks[c].status = "passed"})
        IN  /\ DOMAIN checks = {"documentation", "naming", "structure", "best_practices"}
            /\ 4 * detail["review"].score = 100 * passed
            /\ gates["review"] = "passed" <=> passed = 4
            /\ gates["review"] = "warning" <=> passed = 3
            /\ gates["review"] = "failed" <=> passed <= 2

(* three fallback checks passed and the fourth ended with a warning *)
C29_Witness ==
    /\ pc = "returned" /\ detail["review"].fallback
    /\ \E c \in DOMAIN detail["review"].checks :
           /\ detail["review"].checks[c].status = "warning"
           /\ \A d \in DOMAIN detail["review"].checks \ {c} :
                  detail["review"].checks[d].status = "passed"
    /\ detail["review"].score = 75
    /\ gates["review"] = "warning"

====
